---- MODULE Spec2Model ----
(***************************************************************************)
(* A model of the project-aggregation build of jjwprotozoa/justinwessels:  *)
(* scripts/normalize.ts (manifest parsing, field derivation, ordering),    *)
(* scripts/load-manual.ts (local record loader), scripts/github.ts (paged  *)
(* fetch) and scripts/build-projects.ts (the build's main).                *)
(*                                                                         *)
(* Strings that the code takes apart (tags such as "domain:saas") are      *)
(* sequences of tokens: <<"domain:", "saas">>.  startsWith and replace are  *)
(* operators on these sequences.  A JavaScript Number that may be NaN is a *)
(* record [nan, n].                                                        *)
(***************************************************************************)
EXTENDS Integers, Sequences, FiniteSets, TLC

VARIABLES
    sortPc,     \* position of the sortProjects harness: "idle", "input", "sorted", "resorted"
    sortIn,     \* the argument given to sortProjects
    sortOut,    \* sortProjects(sortIn)
    sortAgain,  \* sortProjects(sortOut)
    parsePc,    \* position of the parseManifest harness: "idle", "input", "parsed"
    parseText,  \* the manifest text given to parseManifest
    parseOut,   \* what parseManifest did: [threw, value]
    derivePc,   \* position of the field-derivation harness: "idle", "input", "derived"
    deriveManifest, \* the manifest (or null) given to the derive functions
    deriveTopics,   \* the tag list given to the derive functions
    deriveOut,  \* [status, tier, visibility, domains] as derived
    pc,             \* position of main: "idle", "start", "fetch", "normalize", "load", "done", "failed"
    hasNextPage,    \* fetchAllRepositories: hasNextPage
    endCursor,      \* fetchAllRepositories: endCursor, as the number of pages received
    served,         \* every node of the responses received so far, in order
    requested,      \* the variables of every page request issued so far, in order
    repositories,   \* fetchAllRepositories: allRepositories, then main's repositories
    nextRepo,       \* main: index of the repository the loop is at
    githubProjects, \* main: githubProjects
    files,          \* loadManualProjects: files
    nextFile,       \* loadManualProjects: index of the file the loop is at
    clock,          \* the time new Date() last gave
    manualProjects, \* loadManualProjects: projects
    manualStats,    \* loadManualProjects: stats
    stats,          \* main: stats
    artifact,       \* public/data/projects.json: [written, projects]
    exitCode,       \* the exit status of the run
    revalidateToken, \* api/revalidate: process.env.REVALIDATE_TOKEN
    requests,        \* api/revalidate: the x-revalidate-token header of each request received
    revalidated,     \* api/revalidate: the paths given to revalidatePath so far
    response,        \* api/revalidate: the last response, [status, ok]
    projectsCache,   \* lib/projects.ts: projectsCache, [loaded, items]
    lastCall,        \* lib/projects.ts: the read function called last, [name, filters]
    returned,        \* lib/projects.ts: what that call returned
    cacheOptions,    \* lib/cache.ts: the options of a MemoryCache
    cacheEntries,    \* lib/cache.ts: its Map, as the entries in insertion order
    dateNow,         \* lib/cache.ts: what Date.now() gives
    cacheResult,     \* lib/cache.ts: the last operation on the cache and its return value
    apiCalls         \* lib/cache.ts: what each cachedApiCall so far did

sortVars == <<sortPc, sortIn, sortOut, sortAgain>>

parseVars == <<parsePc, parseText, parseOut>>

deriveVars == <<derivePc, deriveManifest, deriveTopics, deriveOut>>

buildVars ==
    <<pc, hasNextPage, endCursor, served, requested, repositories, nextRepo, githubProjects, files, nextFile,
      clock, manualProjects, manualStats, stats, artifact, exitCode>>

revalidateVars == <<revalidateToken, requests, revalidated, response>>

siteVars == <<projectsCache, lastCall, returned>>

cacheVars == <<cacheOptions, cacheEntries, dateNow, cacheResult, apiCalls>>

webVars == <<revalidateVars, siteVars, cacheVars>>

vars == <<sortVars, parseVars, deriveVars, buildVars, webVars>>

(***************************************************************************)
(* Bounds of the model.                                                    *)
(***************************************************************************)
MaxSortLen == 3
MaxLongLen == 7
MaxTopics == 3
MaxRepos == 2
MaxPageLen == 2
MaxPages == 2
MaxFiles == 2
MaxRequests == 3
MaxSize == 2
MaxTime == 2
MaxCalls == 3

(***************************************************************************)
(* Generic helpers on sequences.                                           *)
(***************************************************************************)
Range(s) == {s[i] : i \in 1..Len(s)}

Reverse(s) == [i \in 1..Len(s) |-> s[Len(s) + 1 - i]]

(***************************************************************************)
(* Strings as token sequences: String.prototype.startsWith, replace (first *)
(* occurrence) and the order-keeping duplicate removal of                  *)
(* [...new Set(xs)].                                                       *)
(***************************************************************************)
StartsWith(topic, prefix) == Len(topic) >= 1 /\ topic[1] = prefix

Replace(topic, pattern) ==
    IF \E i \in 1..Len(topic) : topic[i] = pattern
    THEN LET i == CHOOSE k \in 1..Len(topic) :
                     /\ topic[k] = pattern
                     /\ \A j \in 1..(k - 1) : topic[j] # pattern
         IN  SubSeq(topic, 1, i - 1) \o SubSeq(topic, i + 1, Len(topic))
    ELSE topic

RECURSIVE SetSpread(_, _)
SetSpread(xs, seen) ==
    IF xs = <<>> THEN <<>>
    ELSE IF Head(xs) \in seen THEN SetSpread(Tail(xs), seen)
    ELSE <<Head(xs)>> \o SetSpread(Tail(xs), seen \cup {Head(xs)})

(***************************************************************************)
(* Manifest text and its parsing.  A text is [kind, doc]: kind "absent"    *)
(* (no sidecar), "empty" (the empty string), "malformed" (yaml.load        *)
(* throws), "scalar" (yaml.load gives a string), or "mapping" with doc a   *)
(* function from keys to YAML values [t, v], t the value's type: "str",    *)
(* "num", "strlist" (a list of strings) or "numlist" (a list holding a     *)
(* number).  A call that may throw gives [threw, value].                   *)
(***************************************************************************)
Null == [null |-> TRUE]

Ok(v) == [threw |-> FALSE, value |-> v]

Throw == [threw |-> TRUE, value |-> Null]

Absent == [t |-> "absent", v |-> ""]

AbsentList == [t |-> "absent", v |-> <<>>]

Str(s) == [t |-> "str", v |-> s]

\* a YAML number, held as its text
YamlNum == [t |-> "num", v |-> "1"]

VALID_STATUSES == {"complete", "in-progress", "archived"}

VALID_TIERS == {"flagship", "mvp", "experiment"}

VALID_VISIBILITIES == {"featured", "portfolio", "labs", "ventures"}

ManifestKeys ==
    {"title", "status", "tier", "stack", "roles", "live_url", "demo_url", "repo_url",
     "homepage_url", "highlights", "metrics", "topics", "visibility"}

\* yaml.load(manifestText)
yamlLoad(text) ==
    CASE text.kind = "malformed" -> Throw
      [] text.kind = "scalar"    -> Ok([t |-> "str", v |-> "just text"])
      [] text.kind = "mapping"   -> Ok([t |-> "map", v |-> text.doc])
      [] OTHER                   -> Ok([t |-> "null", v |-> Null])

\* one field of ProjectManifestSchema, src/types/project.ts
ManifestFieldOk(key, val) ==
    CASE key \in {"title", "live_url", "demo_url", "repo_url", "homepage_url"} ->
             val.t = "str"
      [] key = "status"     -> val.t = "str" /\ val.v \in VALID_STATUSES
      [] key = "tier"       -> val.t = "str" /\ val.v \in VALID_TIERS
      [] key = "visibility" -> val.t = "str" /\ val.v \in VALID_VISIBILITIES
      [] key \in {"stack", "roles", "highlights", "topics"} -> val.t = "strlist"
      [] key = "metrics"    -> val.t = "record"
      [] OTHER              -> TRUE

\* ProjectManifestSchema.parse(parsed): a z.object, which drops unknown keys
ProjectManifestSchemaParse(parsed) ==
    IF parsed.t # "map" THEN Throw
    ELSE IF \E k \in DOMAIN parsed.v : ~ManifestFieldOk(k, parsed.v[k]) THEN Throw
    ELSE Ok([k \in (DOMAIN parsed.v) \cap ManifestKeys |-> parsed.v[k].v])

\* !manifestText
Falsy(text) == text.kind \in {"absent", "empty"}

\* parseManifest without its try/catch: what yaml.load or the schema throws
\* reaches the caller
parseManifestUncaught(manifestText) ==
    IF Falsy(manifestText) THEN Ok(Null)
    ELSE LET parsed == yamlLoad(manifestText)
         IN  IF parsed.threw THEN Throw
             ELSE ProjectManifestSchemaParse(parsed.value)

parseManifest(manifestText) ==
    IF Falsy(manifestText) THEN Ok(Null)
    ELSE LET parsed == yamlLoad(manifestText)
             body   == IF parsed.threw THEN Throw
                       ELSE ProjectManifestSchemaParse(parsed.value)
         IN  IF body.threw THEN Ok(Null) ELSE body

(***************************************************************************)
(* Field derivation, scripts/normalize.ts:16-66.                           *)
(***************************************************************************)
\* manifest?.key is defined
Has(manifest, key) == manifest # Null /\ key \in DOMAIN manifest

\* manifest?.key is truthy, for a string field
Truthy(manifest, key) == Has(manifest, key) /\ manifest[key] # ""

IsDomainTopic(topic) == StartsWith(topic, "domain:")

IsPortfolioTopic(topic) == StartsWith(topic, "portfolio:")

extractDomainsFromTopics(topics) ==
    LET kept == SelectSeq(topics, IsDomainTopic)
    IN  [i \in 1..Len(kept) |-> Replace(kept[i], "domain:")]

\* deriveStatus that reads the first tag of the list where the code reads the
\* first portfolio: tag
deriveStatusFirstTag(manifest, topics) ==
    IF Truthy(manifest, "status") THEN manifest["status"]
    ELSE LET statusTopic == Replace(topics[1], "portfolio:")
         IN  IF Len(topics) > 0 /\ IsPortfolioTopic(topics[1])
                  /\ (statusTopic = <<"complete">> \/ statusTopic = <<"archived">>)
             THEN statusTopic[1]
             ELSE "in-progress"

deriveStatus(manifest, topics) ==
    IF Truthy(manifest, "status") THEN manifest["status"]
    ELSE LET portfolioTopics == SelectSeq(topics, IsPortfolioTopic)
             statusTopic == Replace(portfolioTopics[1], "portfolio:")
         IN  IF Len(portfolioTopics) > 0
                  /\ (statusTopic = <<"complete">> \/ statusTopic = <<"archived">>)
             THEN statusTopic[1]
             ELSE "in-progress"

deriveTier(manifest) ==
    IF Truthy(manifest, "tier") THEN manifest["tier"] ELSE "experiment"

deriveVisibility(manifest, topics) ==
    IF Truthy(manifest, "visibility") THEN manifest["visibility"]
    ELSE LET portfolioTopics == SelectSeq(topics, IsPortfolioTopic)
             visibilityTopic == Replace(portfolioTopics[1], "portfolio:")
         IN  IF Len(portfolioTopics) > 0
                  /\ Len(visibilityTopic) = 1
                  /\ visibilityTopic[1] \in VALID_VISIBILITIES
             THEN visibilityTopic[1]
             ELSE "portfolio"

(***************************************************************************)
(* normalizeProject, scripts/normalize.ts:68-101.  A raw repository is     *)
(* [name, description, stargazerCount, pushedAt, isArchived, isFork,       *)
(* homepageUrl, openGraphImageUrl, url, topics, text]: topics the names of *)
(* repositoryTopics.nodes, text the sidecar (object?.text).  A null string *)
(* is JsNull, an absent one Undefined.  The function sets no manifest      *)
(* field.                                                                  *)
(***************************************************************************)
Undefined == "<undefined>"

JsNull == "<null>"

NoManifest == [undefined |-> TRUE]

\* x || undefined, for a string or null
OrUndefined(x) == IF x \in {JsNull, ""} THEN Undefined ELSE x

OrElse(manifest, key, default) == IF Has(manifest, key) THEN manifest[key] ELSE default

\* normalizeProject that derives domains, status and visibility from the host tags
\* and unions the manifest topics in afterwards
normalizeProjectHostTags(repo) ==
    LET manifest       == parseManifest(repo.text).value
        githubTopics   == repo.topics
        manifestTopics == OrElse(manifest, "topics", <<>>)
        allTopics      == SetSpread(githubTopics \o manifestTopics, {})
    IN  [slug        |-> repo.name,
         title       |-> IF Truthy(manifest, "title") THEN manifest["title"] ELSE repo.name,
         description |-> OrUndefined(repo.description),
         source      |-> "github",
         status      |-> deriveStatus(manifest, githubTopics),
         tier        |-> deriveTier(manifest),
         topics      |-> allTopics,
         domains     |-> extractDomainsFromTopics(githubTopics),
         stack       |-> OrElse(manifest, "stack", <<>>),
         roles       |-> OrElse(manifest, "roles", <<>>),
         repoUrl     |-> repo.url,
         homepageUrl |-> IF OrUndefined(repo.homepageUrl) # Undefined
                         THEN repo.homepageUrl
                         ELSE IF Truthy(manifest, "homepage_url")
                              THEN manifest["homepage_url"] ELSE Undefined,
         stars       |-> repo.stargazerCount,
         pushedAt    |-> repo.pushedAt,
         ogImage     |-> OrUndefined(repo.openGraphImageUrl),
         visibility  |-> deriveVisibility(manifest, githubTopics),
         manifest    |-> NoManifest]

normalizeProject(repo) ==
    LET manifest       == parseManifest(repo.text).value
        githubTopics   == repo.topics
        manifestTopics == OrElse(manifest, "topics", <<>>)
        allTopics      == SetSpread(githubTopics \o manifestTopics, {})
    IN  [slug        |-> repo.name,
         title       |-> IF Truthy(manifest, "title") THEN manifest["title"] ELSE repo.name,
         description |-> OrUndefined(repo.description),
         source      |-> "github",
         status      |-> deriveStatus(manifest, allTopics),
         tier        |-> deriveTier(manifest),
         topics      |-> allTopics,
         domains     |-> extractDomainsFromTopics(allTopics),
         stack       |-> OrElse(manifest, "stack", <<>>),
         roles       |-> OrElse(manifest, "roles", <<>>),
         repoUrl     |-> repo.url,
         homepageUrl |-> IF OrUndefined(repo.homepageUrl) # Undefined
                         THEN repo.homepageUrl
                         ELSE IF Truthy(manifest, "homepage_url")
                              THEN manifest["homepage_url"] ELSE Undefined,
         stars       |-> repo.stargazerCount,
         pushedAt    |-> repo.pushedAt,
         ogImage     |-> OrUndefined(repo.openGraphImageUrl),
         visibility  |-> deriveVisibility(manifest, allTopics),
         manifest    |-> NoManifest]

(***************************************************************************)
(* The validation functions of scripts/build-projects.ts:38-63.            *)
(***************************************************************************)
\* status.toLowerCase().trim() on the strings of the model
LowerTrim(s) ==
    CASE s = "Flagship"  -> "flagship"
      [] s = " mvp "     -> "mvp"
      [] s = "Complete"  -> "complete"
      [] s = "Featured " -> "featured"
      [] OTHER           -> s

validateStatus(status) ==
    IF LowerTrim(status) \in VALID_STATUSES THEN LowerTrim(status) ELSE "in-progress"

\* validateTier that never finds its argument in VALID_TIERS
validateTierToDefault(tier) == "experiment"

validateTier(tier) ==
    IF LowerTrim(tier) \in VALID_TIERS THEN LowerTrim(tier) ELSE "experiment"

validateVisibility(visibility) ==
    IF LowerTrim(visibility) \in VALID_VISIBILITIES THEN LowerTrim(visibility) ELSE "portfolio"

\* an exception inside the try of the loop body, build-projects.ts:128-158: the
\* calls of normalizeProject are parseManifest, which may throw, and operations
\* on fields the host always serves
processRepositoryThrows(repo) == parseManifest(repo.text).threw

\* the loop body with a step that takes repoUrl from the manifest when the
\* manifest declares one
processRepositoryManifestUrl(repo) ==
    LET project  == normalizeProject(repo)
        manifest == parseManifest(repo.text).value
    IN  [project EXCEPT !.status     = validateStatus(project.status),
                        !.tier       = validateTier(project.tier),
                        !.visibility = validateVisibility(project.visibility),
                        !.repoUrl    = IF Truthy(manifest, "repo_url")
                                       THEN manifest["repo_url"] ELSE @]

\* the body of the loop over the fetched repositories, build-projects.ts:129-141
processRepository(repo) ==
    LET project == normalizeProject(repo)
    IN  [project EXCEPT !.status     = validateStatus(project.status),
                        !.tier       = validateTier(project.tier),
                        !.visibility = validateVisibility(project.visibility)]

(***************************************************************************)
(* loadManualProjects, scripts/load-manual.ts.  A file is [name, content]: *)
(* name <<base, extension>>, content a text as above.  A YAML boolean is   *)
(* [t |-> "bool", v |-> "true" or "false"].                                *)
(***************************************************************************)
IsManualFile(file) == file.name[2] \in {".yml", ".yaml"}

Field(doc, key) == IF key \in DOMAIN doc THEN doc[key] ELSE [t |-> "absent", v |-> ""]

\* JavaScript truthiness of a YAML value
JsTruthy(val) ==
    CASE val.t = "absent" -> FALSE
      [] val.t = "str"    -> val.v # ""
      [] val.t = "num"    -> val.v # "0"
      [] val.t = "bool"   -> val.v = "true"
      [] OTHER            -> TRUE

\* manifest.key with the default left out
FieldOrNothing(doc, key, default) == Field(doc, key)

\* manifest.key || default, on the value
FieldOr(doc, key, default) ==
    IF JsTruthy(Field(doc, key)) THEN Field(doc, key) ELSE default

\* ProjectSchema with strings where the code has enums, for the record and for
\* its manifest
ProjectSchemaOkNoEnums(slug, title, status, tier, visibility, topics, doc) ==
    /\ slug.t = "str"
    /\ title.t = "str"
    /\ status.t = "str"
    /\ tier.t = "str"
    /\ visibility.t = "str"
    /\ topics.t = "strlist"

\* ProjectSchema.parse(project), src/types/project.ts, on the typed fields of the
\* project a local file makes; its manifest field holds the file's declared values
\* and is checked against ProjectManifestSchema
ProjectSchemaOk(slug, title, status, tier, visibility, topics, doc) ==
    /\ slug.t = "str"
    /\ title.t = "str"
    /\ status.t = "str" /\ status.v \in VALID_STATUSES
    /\ tier.t = "str" /\ tier.v \in VALID_TIERS
    /\ visibility.t = "str" /\ visibility.v \in VALID_VISIBILITIES
    /\ topics.t = "strlist"
    /\ Field(doc, "description").t \in {"str", "absent"}
    /\ \A k \in (DOMAIN doc) \cap ManifestKeys : ManifestFieldOk(k, doc[k])

IncludeTag == <<"portfolio:", "include">>

HideTag == <<"portfolio:", "hide">>

Includes(topics, tag) == \E i \in 1..Len(topics) : topics[i] = tag

\* a catch that counts the failed file as skipped and records no message
InvalidAsSkipped(message) == [outcome |-> "skipped", message |-> "", project |-> NoManifest]

Invalid(message) == [outcome |-> "invalid", message |-> message, project |-> NoManifest]

\* the inclusion rules with the include gate asked before the hide tag
inclusionOutcomeIncludeFirst(include, topics) ==
    LET shouldInclude == JsTruthy(include) /\ Includes(topics, IncludeTag)
        shouldExclude == Includes(topics, HideTag)
    IN  IF shouldInclude THEN "included"
        ELSE IF shouldExclude THEN "skipped" ELSE "skipped"

\* the inclusion rules with either gate enough: include || the include tag
inclusionOutcomeEitherGate(include, topics) ==
    LET shouldInclude == JsTruthy(include) \/ Includes(topics, IncludeTag)
        shouldExclude == Includes(topics, HideTag)
    IN  IF shouldExclude THEN "skipped"
        ELSE IF shouldInclude THEN "included" ELSE "skipped"

\* the inclusion rules, load-manual.ts:177-191
inclusionOutcome(include, topics) ==
    LET shouldInclude == JsTruthy(include) /\ Includes(topics, IncludeTag)
        shouldExclude == Includes(topics, HideTag)
    IN  IF shouldExclude THEN "skipped"
        ELSE IF shouldInclude THEN "included" ELSE "skipped"

\* the body of the loop over the files, load-manual.ts:103-199: what one file
\* comes to, [outcome, message, project]
loadManualFile(file, now) ==
    LET parsed == yamlLoad(file.content)
    IN  IF parsed.threw THEN Invalid("YAMLException")
        ELSE IF parsed.value.t = "null" THEN Invalid("TypeError")
        ELSE
        LET doc        == IF parsed.value.t = "map" THEN parsed.value.v ELSE <<>>
            slug       == FieldOr(doc, "slug", Str(file.name[1]))
            include    == IF "include" \in DOMAIN doc
                          THEN doc["include"] ELSE [t |-> "bool", v |-> "true"]
            visibility == FieldOr(doc, "visibility", Str("ventures"))
            status     == FieldOr(doc, "status", Str("in-progress"))
            tier       == FieldOr(doc, "tier", Str("mvp"))
            topics     == FieldOr(doc, "topics", [t |-> "strlist", v |-> <<IncludeTag>>])
            repoUrl    == IF JsTruthy(Field(doc, "repo_url"))
                          THEN Field(doc, "repo_url") ELSE [t |-> "absent", v |-> ""]
            title      == Field(doc, "title")
        IN  IF ~JsTruthy(title) THEN Invalid("Missing required field: title")
            ELSE IF Field(doc, "source") # Str("manual") THEN Invalid("Source must be manual")
            ELSE IF topics.t # "strlist" THEN Invalid("TypeError")
            ELSE IF ~ProjectSchemaOk(slug, title, status, tier, visibility, topics, doc)
                 THEN Invalid("ZodError")
            ELSE
            LET project ==
                  [slug        |-> slug.v,
                   title       |-> title.v,
                   description |-> IF "description" \in DOMAIN doc
                                   THEN doc["description"].v ELSE Undefined,
                   source      |-> "manual",
                   status      |-> status.v,
                   tier        |-> tier.v,
                   topics      |-> topics.v,
                   domains     |-> extractDomainsFromTopics(topics.v),
                   stack       |-> IF JsTruthy(Field(doc, "stack"))
                                   THEN doc["stack"].v ELSE <<>>,
                   roles       |-> IF JsTruthy(Field(doc, "roles"))
                                   THEN doc["roles"].v ELSE <<>>,
                   repoUrl     |-> IF repoUrl.t = "absent" THEN Undefined ELSE repoUrl.v,
                   homepageUrl |-> IF JsTruthy(Field(doc, "homepage_url"))
                                   THEN doc["homepage_url"].v ELSE Undefined,
                   stars       |-> 0,
                   pushedAt    |-> now,
                   ogImage     |-> Undefined,
                   visibility  |-> visibility.v,
                   manifest    |-> [k \in (DOMAIN doc) \cap ManifestKeys |-> doc[k].v]]
            IN  [outcome |-> inclusionOutcome(include, topics.v),
                 message |-> "",
                 project |-> project]

(***************************************************************************)
(* Timestamps.  pushedAt is any string (ProjectSchema: z.string()); the    *)
(* comparator reads it with new Date(s).getTime(), which is NaN for a      *)
(* string that is no date.                                                 *)
(***************************************************************************)
NaN == [nan |-> TRUE, n |-> 0]

Num(k) == [nan |-> FALSE, n |-> k]

DateGetTime(s) ==
    CASE s = "2024-01-01T00:00:00Z" -> Num(1)
      [] s = "2024-02-01T00:00:00Z" -> Num(2)
      [] s = "2024-03-01T00:00:00Z" -> Num(3)
      [] s = "2024-04-01T00:00:00Z" -> Num(4)
      [] OTHER -> NaN

NumSub(x, y) == IF x.nan \/ y.nan THEN NaN ELSE Num(x.n - y.n)

(***************************************************************************)
(* compareProjects, scripts/normalize.ts:103-116.                          *)
(***************************************************************************)
tierOrder(t) == CASE t = "flagship" -> 0 [] t = "mvp" -> 1 [] t = "experiment" -> 2

statusOrder(s) == CASE s = "complete" -> 0 [] s = "in-progress" -> 1 [] s = "archived" -> 2

\* compareProjects that ranks the first argument first when the dates tie or
\* do not parse
compareProjectsTieBroken(a, b) ==
    LET tierComparison == tierOrder(a.tier) - tierOrder(b.tier)
        statusComparison == statusOrder(a.status) - statusOrder(b.status)
        d == NumSub(DateGetTime(b.pushedAt), DateGetTime(a.pushedAt))
    IN  IF tierComparison # 0 THEN Num(tierComparison)
        ELSE IF statusComparison # 0 THEN Num(statusComparison)
        ELSE IF d.nan \/ d.n = 0 THEN Num(-1) ELSE d

compareProjects(a, b) ==
    LET tierComparison == tierOrder(a.tier) - tierOrder(b.tier)
        statusComparison == statusOrder(a.status) - statusOrder(b.status)
    IN  IF tierComparison # 0 THEN Num(tierComparison)
        ELSE IF statusComparison # 0 THEN Num(statusComparison)
        ELSE NumSub(DateGetTime(b.pushedAt), DateGetTime(a.pushedAt))

(***************************************************************************)
(* Array.prototype.sort as the build's engine (Node, V8) runs it on an     *)
(* array shorter than 64 elements: the comparator's NaN counts as +0, the  *)
(* leading run is found (a strictly descending one is reversed) and the    *)
(* rest is placed by binary insertion.  Indices are 1-based here.          *)
(***************************************************************************)
SortCompare(a, b) ==
    LET v == compareProjects(a, b) IN IF v.nan THEN 0 ELSE v.n

RECURSIVE RunExtent(_, _, _)
RunExtent(w, idx, desc) ==
    IF idx > Len(w) THEN Len(w)
    ELSE LET order == SortCompare(w[idx], w[idx - 1])
         IN  IF (desc /\ order >= 0) \/ (~desc /\ order < 0)
             THEN idx - 1
             ELSE RunExtent(w, idx + 1, desc)

CountAndMakeRun(w) ==
    LET desc == SortCompare(w[2], w[1]) < 0
        run  == RunExtent(w, 3, desc)
    IN  [run  |-> run,
         work |-> IF desc
                  THEN Reverse(SubSeq(w, 1, run)) \o SubSeq(w, run + 1, Len(w))
                  ELSE w]

\* left and right count the elements before the position, as in the engine's
\* 0-based search over work[left .. right).
RECURSIVE BinarySearch(_, _, _, _)
BinarySearch(w, pivot, left, right) ==
    IF left >= right THEN left
    ELSE LET mid == left + ((right - left) \div 2)
         IN  IF SortCompare(pivot, w[mid + 1]) < 0
             THEN BinarySearch(w, pivot, left, mid)
             ELSE BinarySearch(w, pivot, mid + 1, right)

RECURSIVE BinaryInsertionSort(_, _)
BinaryInsertionSort(w, start) ==
    IF start >= Len(w) THEN w
    ELSE LET pivot == w[start + 1]
             left  == BinarySearch(w, pivot, 0, start)
             moved == SubSeq(w, 1, left) \o <<pivot>> \o SubSeq(w, left + 1, start)
                        \o SubSeq(w, start + 2, Len(w))
         IN  BinaryInsertionSort(moved, start + 1)

ArraySort(w) ==
    IF Len(w) < 2 THEN w
    ELSE LET r == CountAndMakeRun(w) IN BinaryInsertionSort(r.work, r.run)

\* sortProjects, scripts/normalize.ts:118-120: a sorted copy.
sortProjects(projects) == ArraySort(projects)

(***************************************************************************)
(* The parseManifest harness: a manifest text is drawn and parsed.         *)
(***************************************************************************)

\* the values a key of a drawn document may hold; "done", "Flagship" and "hidden"
\* are outside their enums, a num is no string, a numlist no list of strings
ParseChoices ==
    [status     : {Absent, Str("complete"), Str("archived"), Str("done"), YamlNum},
     tier       : {Absent, Str("flagship"), Str("Flagship")},
     visibility : {Absent, Str("labs"), Str("hidden")},
     topics     : {AbsentList, [t |-> "strlist", v |-> <<<<"domain:", "saas">>>>],
                   [t |-> "numlist", v |-> <<>>]},
     title      : {Absent, Str("My Project"), YamlNum},
     notes      : {Absent, Str("free text")}]

DocOf(choice) == [k \in {x \in DOMAIN choice : choice[x].t # "absent"} |-> choice[k]]

Mapping(doc) == [kind |-> "mapping", doc |-> doc]

Plain(kind) == [kind |-> kind, doc |-> <<>>]

ParseTexts ==
    {Plain("absent"), Plain("empty"), Plain("malformed"), Plain("scalar")}
        \cup {Mapping(DocOf(c)) : c \in ParseChoices}

ParseInit ==
    /\ parsePc = "input"
    /\ parseText \in ParseTexts
    /\ parseOut = Ok(Null)

ParseIdle ==
    /\ parsePc = "idle"
    /\ parseText = Plain("absent")
    /\ parseOut = Ok(Null)

Parse ==
    /\ parsePc = "input"
    /\ parseOut' = parseManifest(parseText)
    /\ parsePc' = "parsed"
    /\ UNCHANGED <<parseText, sortVars, deriveVars, buildVars, webVars>>

(***************************************************************************)
(* The field-derivation harness: a manifest and a tag list are drawn and   *)
(* the four fields derived from them.                                      *)
(***************************************************************************)
DeriveTags ==
    {<<"portfolio:", "complete">>, <<"portfolio:", "archived">>,
     <<"portfolio:", "in-progress">>, <<"portfolio:", "featured">>,
     <<"portfolio:", "labs">>, <<"portfolio:", "include">>,
     <<"domain:", "saas">>, <<"domain:", "health">>, <<"react">>}

DeriveManifests ==
    {Null, <<>>, [status |-> "archived"], [tier |-> "flagship"], [visibility |-> "ventures"],
     [status |-> "complete", tier |-> "mvp", visibility |-> "labs"]}

TagLists(tags, maxLen) == UNION {[1..n -> tags] : n \in 0..maxLen}

DeriveInit ==
    /\ derivePc = "input"
    /\ deriveManifest \in DeriveManifests
    /\ deriveTopics \in TagLists(DeriveTags, MaxTopics)
    /\ deriveOut = <<>>

DeriveIdle ==
    /\ derivePc = "idle"
    /\ deriveManifest = Null
    /\ deriveTopics = <<>>
    /\ deriveOut = <<>>

Derive ==
    /\ derivePc = "input"
    /\ deriveOut' = [status     |-> deriveStatus(deriveManifest, deriveTopics),
                     tier       |-> deriveTier(deriveManifest),
                     visibility |-> deriveVisibility(deriveManifest, deriveTopics),
                     domains    |-> extractDomainsFromTopics(deriveTopics)]
    /\ derivePc' = "derived"
    /\ UNCHANGED <<deriveManifest, deriveTopics, sortVars, parseVars, buildVars, webVars>>

(***************************************************************************)
(* The sortProjects harness: an input sequence is drawn, sorted, and the   *)
(* result sorted again.  compareProjects reads tier, status and pushedAt;  *)
(* slug tells records with equal keys apart.                               *)
(***************************************************************************)
SlugOf(i) ==
    CASE i = 1 -> "p1" [] i = 2 -> "p2" [] i = 3 -> "p3" [] i = 4 -> "p4" [] i = 5 -> "p5"
      [] i = 6 -> "p6" [] i = 7 -> "p7" [] i = 8 -> "p8" [] OTHER -> "p9"

PushedAtValues == {"2024-01-01T00:00:00Z", "2024-03-01T00:00:00Z", "not-a-date"}

\* every tier rank and every status rank occurs, and a pair on which the two
\* keys disagree (flagship/archived against mvp/complete)
SortTierStatus ==
    {<<"flagship", "complete">>, <<"flagship", "in-progress">>, <<"flagship", "archived">>,
     <<"mvp", "complete">>, <<"experiment", "complete">>}

SortKinds == {[tier |-> ts[1], status |-> ts[2], pushedAt |-> p] :
                 ts \in SortTierStatus, p \in PushedAtValues}

LongKinds == {[tier |-> "flagship", status |-> "complete", pushedAt |-> p] :
                 p \in PushedAtValues}

SortInputs(kinds, maxLen) ==
    UNION {{[i \in 1..n |-> [slug |-> SlugOf(i), tier |-> k[i].tier,
                             status |-> k[i].status, pushedAt |-> k[i].pushedAt]] :
               k \in [1..n -> kinds]} : n \in 0..maxLen}

SortInit ==
    /\ sortPc = "input"
    /\ sortIn \in SortInputs(SortKinds, MaxSortLen)
    /\ sortOut = <<>>
    /\ sortAgain = <<>>

SortLongInit ==
    /\ sortPc = "input"
    /\ sortIn \in SortInputs(LongKinds, MaxLongLen)
    /\ sortOut = <<>>
    /\ sortAgain = <<>>

SortIdle ==
    /\ sortPc = "idle"
    /\ sortIn = <<>>
    /\ sortOut = <<>>
    /\ sortAgain = <<>>

Sort ==
    /\ sortPc = "input"
    /\ sortOut' = sortProjects(sortIn)
    /\ sortPc' = "sorted"
    /\ UNCHANGED <<sortIn, sortAgain, parseVars, deriveVars, buildVars, webVars>>

Resort ==
    /\ sortPc = "sorted"
    /\ sortAgain' = sortProjects(sortOut)
    /\ sortPc' = "resorted"
    /\ UNCHANGED <<sortIn, sortOut, parseVars, deriveVars, buildVars, webVars>>

SortNext == Sort \/ Resort


(***************************************************************************)
(* The build: main of scripts/build-projects.ts with fetchAllRepositories  *)
(* of scripts/github.ts and the loop of loadManualProjects, one action per *)
(* awaited request and per loop iteration.                                 *)
(***************************************************************************)
UrlOf(name) ==
    CASE name = "alpha" -> "https://github.com/jjwprotozoa/alpha"
      [] name = "beta"  -> "https://github.com/jjwprotozoa/beta"
      [] name = "gamma" -> "https://github.com/jjwprotozoa/gamma"
      [] OTHER          -> "https://github.com/jjwprotozoa/other"

RepoNames == {"alpha", "beta", "gamma"}

\* what the host may serve under a name: a bare repository, one with tags and a
\* sidecar manifest, one whose tags name a tier and whose sidecar is malformed, a
\* fork and an archived repository
RepoShapes ==
    {[description |-> JsNull, stargazerCount |-> 0, pushedAt |-> "2024-01-01T00:00:00Z",
      isArchived |-> FALSE, isFork |-> FALSE, homepageUrl |-> JsNull, openGraphImageUrl |-> JsNull,
      topics |-> <<>>, text |-> Plain("absent")],
     [description |-> "A project", stargazerCount |-> 5, pushedAt |-> "2024-03-01T00:00:00Z",
      isArchived |-> FALSE, isFork |-> FALSE, homepageUrl |-> JsNull,
      openGraphImageUrl |-> "https://img.example/alpha.png",
      topics |-> <<<<"portfolio:", "complete">>, <<"domain:", "saas">>>>,
      text |-> Mapping([tier     |-> Str("flagship"),
                        topics   |-> [t |-> "strlist",
                                      v |-> <<<<"domain:", "saas">>, <<"domain:", "health">>>>],
                        repo_url |-> Str("https://example.com/elsewhere")])],
     [description |-> "", stargazerCount |-> 1, pushedAt |-> "2024-03-01T00:00:00Z",
      isArchived |-> FALSE, isFork |-> FALSE, homepageUrl |-> "https://alpha.example",
      openGraphImageUrl |-> JsNull,
      topics |-> <<<<"portfolio:", "flagship">>, <<"domain:", "health">>>>,
      text |-> Plain("malformed")],
     [description |-> JsNull, stargazerCount |-> 0, pushedAt |-> "2024-01-01T00:00:00Z",
      isArchived |-> FALSE, isFork |-> TRUE, homepageUrl |-> JsNull,
      openGraphImageUrl |-> JsNull,
      topics |-> <<>>, text |-> Plain("absent")],
     [description |-> JsNull, stargazerCount |-> 0, pushedAt |-> "2024-01-01T00:00:00Z",
      isArchived |-> TRUE, isFork |-> FALSE, homepageUrl |-> JsNull,
      openGraphImageUrl |-> JsNull,
      topics |-> <<>>, text |-> Plain("absent")]}

Repo(name, shape) ==
    [name |-> name, url |-> UrlOf(name), description |-> shape.description,
     stargazerCount |-> shape.stargazerCount, pushedAt |-> shape.pushedAt,
     isArchived |-> shape.isArchived, isFork |-> shape.isFork,
     homepageUrl |-> shape.homepageUrl, openGraphImageUrl |-> shape.openGraphImageUrl,
     topics |-> shape.topics, text |-> shape.text]

Names(repos) == {repos[i].name : i \in 1..Len(repos)}

\* the pages the host may serve next: up to MaxPageLen repositories whose names are
\* distinct and not those of a repository already served
Pages(taken) ==
    UNION {{p \in [1..n -> {Repo(nm, sh) : nm \in RepoNames \ taken, sh \in RepoShapes}] :
               \A i, j \in 1..n : i # j => p[i].name # p[j].name} : n \in 0..MaxPageLen}

\* endCursor as the code holds it: null before the first response, then the cursor
\* of the last response, named by the number of pages received
CursorOf(n) == [null |-> n = 0, page |-> n]

\* the variables that always ask for the first page
RequestVariablesFromStart(cursor) == [first |-> 100, after |-> CursorOf(0)]

\* { first: 100, after: endCursor }, github.ts:64-67
RequestVariables(cursor) == [first |-> 100, after |-> CursorOf(cursor)]

\* the page filter without its test of isFork
KeepRepoNotArchived(repo) == ~repo.isArchived

KeepRepo(repo) == ~repo.isFork /\ ~repo.isArchived

\* the files of data/manual: a default record, one that overrides its slug, one with
\* a tier and a repeated domain tag, one without title, a hidden one; and the README
FileDocs ==
    {[title |-> Str("Venture"), source |-> Str("manual")],
     [title |-> Str("Override"), source |-> Str("manual"), slug |-> Str("alpha")],
     [title |-> Str("Tagged"), source |-> Str("manual"), tier |-> Str("flagship"),
      topics |-> [t |-> "strlist",
                  v |-> <<IncludeTag, <<"domain:", "saas">>, <<"domain:", "saas">>>>]],
     [source |-> Str("manual")],
     [title |-> Str("Hidden"), source |-> Str("manual"),
      topics |-> [t |-> "strlist", v |-> <<IncludeTag, HideTag>>]]}

ManualFiles ==
    {[name |-> <<b, e>>, content |-> Mapping(d)] :
        b \in {"alpha", "delta"}, e \in {".yml"}, d \in FileDocs}
      \cup {[name |-> <<"README", ".md">>, content |-> Plain("scalar")]}

\* the directory listings: up to MaxFiles files of distinct names, in any order
Directories ==
    UNION {{d \in [1..n -> ManualFiles] :
               \A i, j \in 1..n : i # j => d[i].name # d[j].name} : n \in 0..MaxFiles}

NowValues == {"2024-03-01T00:00:00Z", "2024-04-01T00:00:00Z"}

NewStats ==
    [totalRepos |-> 0, manifestsFound |-> 0, included |-> 0, skipped |-> 0, errors |-> 0,
     githubCount |-> 0, manualCount |-> 0, includedManual |-> 0, skippedManual |-> 0]

NewManualStats ==
    [totalFiles |-> 0, validFiles |-> 0, invalidFiles |-> 0, included |-> 0, skipped |-> 0,
     errors |-> <<>>]

NotWritten == [written |-> FALSE, projects |-> <<>>]

(***************************************************************************)
(* The presentation side, src/lib/projects.ts and the feed route.  An item *)
(* of projects.json is a record; a field the item lacks reads as           *)
(* undefined.  Texts that are searched are sequences of words.             *)
(***************************************************************************)
\* item.key is truthy, for a string field
ItemTruthy(item, key) == key \in DOMAIN item /\ item[key] \notin {"", JsNull, Undefined}

\* String(item.key || '')
ItemString(item, key) == IF ItemTruthy(item, key) THEN item[key] ELSE ""

\* item.featured is truthy
ItemFeatured(item) == "featured" \in DOMAIN item /\ item["featured"]

\* Array.isArray(item.key) ? item.key : [], and String(item.key || '') for a text
\* held as its words
ItemArray(item, key) == IF key \in DOMAIN item THEN item[key] ELSE <<>>

\* String.prototype.toLowerCase on the words of the model
ToLowerCase(s) ==
    CASE s = "Web"      -> "web"
      [] s = "Task"     -> "task"
      [] s = "Manager"  -> "manager"
      [] s = "React"    -> "react"
      [] s = "Shop"     -> "shop"
      [] OTHER          -> s

\* convertLegacyProject, projects.ts:5-29
convertLegacyProject(item) ==
    [slug        |-> ItemString(item, "id"),
     title       |-> ItemArray(item, "title"),
     description |-> ItemArray(item, "description"),
     source      |-> "github",
     status      |-> IF "status" \in DOMAIN item /\ item["status"] = "Completed"
                     THEN "complete"
                     ELSE IF "status" \in DOMAIN item /\ item["status"] = "In Development"
                          THEN "in-progress" ELSE "archived",
     tier        |-> IF ItemFeatured(item) THEN "flagship" ELSE "mvp",
     topics      |-> ItemArray(item, "highlights"),
     domains     |-> <<ToLowerCase(ItemString(item, "category"))>>,
     stack       |-> ItemArray(item, "technologies"),
     roles       |-> <<"Developer">>,
     repoUrl     |-> ItemString(item, "githubUrl"),
     homepageUrl |-> IF ItemTruthy(item, "liveUrl") THEN item["liveUrl"] ELSE Undefined,
     stars       |-> 0,
     pushedAt    |-> IF ItemTruthy(item, "endDate") THEN item["endDate"]
                     ELSE ItemString(item, "startDate"),
     ogImage     |-> IF ItemTruthy(item, "image") THEN item["image"] ELSE Undefined,
     visibility  |-> IF ItemFeatured(item) THEN "featured" ELSE "portfolio"]

\* new Date(b.pushedAt).getTime() - new Date(a.pushedAt).getTime()
compareRecency(a, b) == NumSub(DateGetTime(b.pushedAt), DateGetTime(a.pushedAt))

filterTierOrder(t) == CASE t = "flagship" -> 3 [] t = "mvp" -> 2 [] t = "experiment" -> 1

filterStatusOrder(s) == CASE s = "complete" -> 3 [] s = "in-progress" -> 2 [] s = "archived" -> 1

\* the comparator of getFilteredProjects with the tiers ranked the other way round
compareFilteredTierAscending(a, b) ==
    LET tierDiff   == filterTierOrder(a.tier) - filterTierOrder(b.tier)
        statusDiff == filterStatusOrder(b.status) - filterStatusOrder(a.status)
    IN  IF tierDiff # 0 THEN Num(tierDiff)
        ELSE IF statusDiff # 0 THEN Num(statusDiff)
        ELSE NumSub(DateGetTime(b.pushedAt), DateGetTime(a.pushedAt))

\* the comparator of getFilteredProjects, projects.ts:125-138
compareFiltered(a, b) ==
    LET tierDiff   == filterTierOrder(b.tier) - filterTierOrder(a.tier)
        statusDiff == filterStatusOrder(b.status) - filterStatusOrder(a.status)
    IN  IF tierDiff # 0 THEN Num(tierDiff)
        ELSE IF statusDiff # 0 THEN Num(statusDiff)
        ELSE NumSub(DateGetTime(b.pushedAt), DateGetTime(a.pushedAt))

(***************************************************************************)
(* Array.prototype.sort with one of the comparators of the presentation    *)
(* side, as the engine runs it (see ArraySort above).                      *)
(***************************************************************************)
SortCompareBy(comparator, a, b) ==
    LET v == IF comparator = "recency" THEN compareRecency(a, b) ELSE compareFiltered(a, b)
    IN  IF v.nan THEN 0 ELSE v.n

RECURSIVE RunExtentBy(_, _, _, _)
RunExtentBy(comparator, w, idx, desc) ==
    IF idx > Len(w) THEN Len(w)
    ELSE LET order == SortCompareBy(comparator, w[idx], w[idx - 1])
         IN  IF (desc /\ order >= 0) \/ (~desc /\ order < 0)
             THEN idx - 1
             ELSE RunExtentBy(comparator, w, idx + 1, desc)

CountAndMakeRunBy(comparator, w) ==
    LET desc == SortCompareBy(comparator, w[2], w[1]) < 0
        run  == RunExtentBy(comparator, w, 3, desc)
    IN  [run  |-> run,
         work |-> IF desc
                  THEN Reverse(SubSeq(w, 1, run)) \o SubSeq(w, run + 1, Len(w))
                  ELSE w]

RECURSIVE BinarySearchBy(_, _, _, _, _)
BinarySearchBy(comparator, w, pivot, left, right) ==
    IF left >= right THEN left
    ELSE LET mid == left + ((right - left) \div 2)
         IN  IF SortCompareBy(comparator, pivot, w[mid + 1]) < 0
             THEN BinarySearchBy(comparator, w, pivot, left, mid)
             ELSE BinarySearchBy(comparator, w, pivot, mid + 1, right)

RECURSIVE BinaryInsertionSortBy(_, _, _)
BinaryInsertionSortBy(comparator, w, start) ==
    IF start >= Len(w) THEN w
    ELSE LET pivot == w[start + 1]
             left  == BinarySearchBy(comparator, w, pivot, 0, start)
             moved == SubSeq(w, 1, left) \o <<pivot>> \o SubSeq(w, left + 1, start)
                        \o SubSeq(w, start + 2, Len(w))
         IN  BinaryInsertionSortBy(comparator, moved, start + 1)

ArraySortBy(comparator, w) ==
    IF Len(w) < 2 THEN w
    ELSE LET r == CountAndMakeRunBy(comparator, w)
         IN  BinaryInsertionSortBy(comparator, r.work, r.run)

NoFilters == [search |-> "", domain |-> "", status |-> ""]

\* projectsCache before the first call, projects.ts:32
NoCache == [loaded |-> FALSE, items |-> <<>>]

SiteIdle ==
    /\ projectsCache = NoCache
    /\ lastCall = [name |-> "none", filters |-> NoFilters]
    /\ returned = <<>>

(***************************************************************************)
(* MemoryCache and cachedApiCall, src/lib/cache.ts.  The Map of a cache is *)
(* the sequence of its entries [key, data, timestamp, ttl] in insertion    *)
(* order.  A numeric option that is absent is 0, which `||` treats alike.  *)
(***************************************************************************)
CacheKeys == {"", "k1", "k2"}

CacheData == {"a", "b"}

\* the constructor, cache.ts:21-27
MemoryCacheOptions(options) ==
    [ttl     |-> IF options.ttl # 0 THEN options.ttl ELSE 300000,
     maxSize |-> IF options.maxSize # 0 THEN options.maxSize ELSE 100,
     staleWhileRevalidate |-> options.staleWhileRevalidate]

NoOptions == [ttl |-> 0, maxSize |-> 0, staleWhileRevalidate |-> FALSE]

\* Map.prototype.get as a position, 0 when the key is absent
MapIndex(entries, key) ==
    IF \E i \in 1..Len(entries) : entries[i].key = key
    THEN CHOOSE i \in 1..Len(entries) : entries[i].key = key
    ELSE 0

MapDelete(entries, key) ==
    LET Other(e) == e.key # key IN SelectSeq(entries, Other)

\* Map.prototype.set: a key already present keeps its place
MapSet(entries, entry) ==
    IF MapIndex(entries, entry.key) # 0
    THEN [entries EXCEPT ![MapIndex(entries, entry.key)] = entry]
    ELSE Append(entries, entry)

\* now - entry.timestamp > entry.ttl
IsExpired(entry, time) == time - entry.timestamp > entry.ttl

\* get that returns an expired entry and keeps it
memoryGetUnchecked(entries, options, key, time) ==
    LET i == MapIndex(entries, key)
    IN  IF i = 0 THEN [entries |-> entries, value |-> JsNull]
        ELSE [entries |-> entries, value |-> entries[i].data]

\* get, cache.ts:29-51: the entries afterwards and the value returned
memoryGet(entries, options, key, time) ==
    LET i == MapIndex(entries, key)
    IN  IF i = 0 THEN [entries |-> entries, value |-> JsNull]
        ELSE IF IsExpired(entries[i], time)
        THEN IF options.staleWhileRevalidate
             THEN [entries |-> entries, value |-> entries[i].data]
             ELSE [entries |-> MapDelete(entries, key), value |-> JsNull]
        ELSE [entries |-> entries, value |-> entries[i].data]

\* set, cache.ts:53-67
memorySet(entries, options, key, data, ttl, time) ==
    LET oldestKey == IF entries = <<>> THEN Undefined ELSE entries[1].key
        kept == IF Len(entries) >= options.maxSize /\ oldestKey \notin {Undefined, ""}
                THEN MapDelete(entries, oldestKey)
                ELSE entries
    IN  MapSet(kept, [key |-> key, data |-> data, timestamp |-> time,
                      ttl |-> IF ttl # 0 THEN ttl ELSE options.ttl])

\* has, cache.ts:77-90
memoryHas(entries, key, time) ==
    LET i == MapIndex(entries, key)
    IN  IF i = 0 THEN [entries |-> entries, value |-> "false"]
        ELSE IF IsExpired(entries[i], time)
        THEN [entries |-> MapDelete(entries, key), value |-> "false"]
        ELSE [entries |-> entries, value |-> "true"]

NoCacheResult == [op |-> "none", key |-> "", value |-> Undefined]

CacheIdle ==
    /\ cacheOptions = MemoryCacheOptions(NoOptions)
    /\ cacheEntries = <<>>
    /\ dateNow = 0
    /\ cacheResult = NoCacheResult
    /\ apiCalls = <<>>

\* a cache constructed with a maxSize of 1..MaxSize and a ttl of 1, or one of
\* maxSize 1 that returns stale data
CacheInit ==
    /\ \E m \in 1..MaxSize, stale \in BOOLEAN :
          /\ stale => m = 1
          /\ cacheOptions = MemoryCacheOptions([ttl |-> 1, maxSize |-> m,
                                                staleWhileRevalidate |-> stale])
    /\ cacheEntries = <<>>
    /\ dateNow = 0
    /\ cacheResult = NoCacheResult
    /\ apiCalls = <<>>

\* Date.dateNow() moves on
Tick ==
    /\ dateNow < MaxTime
    /\ dateNow' = dateNow + 1
    /\ UNCHANGED <<cacheOptions, cacheEntries, cacheResult, apiCalls>>
    /\ UNCHANGED <<sortVars, parseVars, deriveVars, buildVars, revalidateVars, siteVars>>

CacheSet ==
    /\ \E key \in CacheKeys, data \in CacheData, ttl \in {0, MaxTime} :
          /\ cacheEntries' = memorySet(cacheEntries, cacheOptions, key, data, ttl, dateNow)
          /\ cacheResult' = [op |-> "set", key |-> key, value |-> Undefined]
    /\ UNCHANGED <<cacheOptions, dateNow, apiCalls>>
    /\ UNCHANGED <<sortVars, parseVars, deriveVars, buildVars, revalidateVars, siteVars>>

CacheGet ==
    /\ \E key \in CacheKeys :
          LET r == memoryGet(cacheEntries, cacheOptions, key, dateNow)
          IN  /\ cacheEntries' = r.entries
              /\ cacheResult' = [op |-> "get", key |-> key, value |-> r.value]
    /\ UNCHANGED <<cacheOptions, dateNow, apiCalls>>
    /\ UNCHANGED <<sortVars, parseVars, deriveVars, buildVars, revalidateVars, siteVars>>

CacheHas ==
    /\ \E key \in CacheKeys :
          LET r == memoryHas(cacheEntries, key, dateNow)
          IN  /\ cacheEntries' = r.entries
              /\ cacheResult' = [op |-> "has", key |-> key, value |-> r.value]
    /\ UNCHANGED <<cacheOptions, dateNow, apiCalls>>
    /\ UNCHANGED <<sortVars, parseVars, deriveVars, buildVars, revalidateVars, siteVars>>

\* delete, cache.ts:69-71
CacheDelete ==
    /\ \E key \in CacheKeys :
          /\ cacheEntries' = MapDelete(cacheEntries, key)
          /\ cacheResult' = [op |-> "delete", key |-> key,
                             value |-> IF MapIndex(cacheEntries, key) # 0
                                       THEN "true" ELSE "false"]
    /\ UNCHANGED <<cacheOptions, dateNow, apiCalls>>
    /\ UNCHANGED <<sortVars, parseVars, deriveVars, buildVars, revalidateVars, siteVars>>

\* clear, cache.ts:73-75
CacheClear ==
    /\ cacheEntries' = <<>>
    /\ cacheResult' = [op |-> "clear", key |-> "", value |-> Undefined]
    /\ UNCHANGED <<cacheOptions, dateNow, apiCalls>>
    /\ UNCHANGED <<sortVars, parseVars, deriveVars, buildVars, revalidateVars, siteVars>>

CacheNext == Tick \/ CacheSet \/ CacheGet \/ CacheHas \/ CacheDelete \/ CacheClear

\* cachedApiCall, cache.ts:132-152: the cache it consults is the one it has just
\* constructed; apiCall resolves with data or rejects
cachedApiCall(key, options, outcome, time) ==
    LET opts   == MemoryCacheOptions(options)
        cache  == <<>>
        cached == memoryGet(cache, opts, key, time).value
    IN  IF cached # JsNull
        THEN [key |-> key, at |-> time, ttl |-> opts.ttl, invoked |-> FALSE,
              threw |-> FALSE, value |-> cached]
        ELSE IF outcome = "rejects"
        THEN [key |-> key, at |-> time, ttl |-> opts.ttl, invoked |-> TRUE,
              threw |-> TRUE, value |-> Undefined]
        ELSE [key |-> key, at |-> time, ttl |-> opts.ttl, invoked |-> TRUE,
              threw |-> FALSE, value |-> outcome]

CachedApiCall ==
    /\ Len(apiCalls) < MaxCalls
    /\ \E key \in CacheKeys \ {""}, outcome \in CacheData \cup {"rejects"},
          options \in {NoOptions, [ttl |-> 1, maxSize |-> 0, staleWhileRevalidate |-> FALSE]} :
          apiCalls' = Append(apiCalls, cachedApiCall(key, options, outcome, dateNow))
    /\ UNCHANGED <<cacheOptions, cacheEntries, dateNow, cacheResult>>
    /\ UNCHANGED <<sortVars, parseVars, deriveVars, buildVars, revalidateVars, siteVars>>

ApiCallNext == Tick \/ CachedApiCall

(***************************************************************************)
(* The revalidation endpoint, src/app/api/revalidate/route.ts.  A header   *)
(* that is absent reads as null; a path is a token sequence.               *)
(***************************************************************************)
TokenValues == {Undefined, "", "secret"}

HeaderValues == {JsNull, "", "secret", "guess"}

CorePaths == <<<<"/">>, <<"/projects">>, <<"/feeds">>>>

NoResponse == [status |-> 0, ok |-> FALSE]

\* the test of line 8 without its comparison to the configured token
UnauthorizedWhenAbsent(token, configured) == token \in {JsNull, ""}

\* !token || token !== process.env.REVALIDATE_TOKEN
Unauthorized(token, configured) == token \in {JsNull, ""} \/ token # configured

\* the projects.json the endpoint may find: none, or the sorted records of up to
\* MaxRepos repositories of distinct names
PersistedRecord(name) ==
    processRepository(
        [name |-> name, url |-> UrlOf(name), description |-> JsNull, stargazerCount |-> 0,
         pushedAt |-> "2024-01-01T00:00:00Z", isArchived |-> FALSE, isFork |-> FALSE,
         homepageUrl |-> JsNull, openGraphImageUrl |-> JsNull, topics |-> <<>>,
         text |-> Plain("absent")])

PersistedArtifacts ==
    {NotWritten} \cup
    UNION {{[written |-> TRUE, projects |-> sortProjects([i \in 1..n |-> PersistedRecord(nm[i])])] :
               nm \in {f \in [1..n -> RepoNames] : \A x, y \in 1..n : x # y => f[x] # f[y]}} :
           n \in 0..MaxRepos}

RevalidateIdle ==
    /\ revalidateToken = Undefined
    /\ requests = <<>>
    /\ revalidated = <<>>
    /\ response = NoResponse

WebIdle == RevalidateIdle /\ SiteIdle /\ CacheIdle

\* the build has run (or never ran) and left art behind
BuildLeft(art) ==
    /\ pc = "idle"
    /\ hasNextPage = TRUE
    /\ endCursor = 0
    /\ served = <<>>
    /\ requested = <<>>
    /\ repositories = <<>>
    /\ nextRepo = 1
    /\ githubProjects = <<>>
    /\ files = <<>>
    /\ nextFile = 1
    /\ clock = "2024-03-01T00:00:00Z"
    /\ manualProjects = <<>>
    /\ manualStats = NewManualStats
    /\ stats = NewStats
    /\ artifact = art
    /\ exitCode = 0

RevalidateInit ==
    /\ revalidateToken \in TokenValues
    /\ requests = <<>>
    /\ revalidated = <<>>
    /\ response = NoResponse
    /\ \E art \in PersistedArtifacts : BuildLeft(art)

\* POST, route.ts:6-37
POST ==
    /\ Len(requests) < MaxRequests
    /\ \E token \in HeaderValues :
          /\ requests' = Append(requests, token)
          /\ IF Unauthorized(token, revalidateToken)
             THEN /\ revalidated' = revalidated
                  /\ response' = [status |-> 401, ok |-> FALSE]
             ELSE IF ~artifact.written
             THEN \* readFileSync throws after the core pages were revalidated
                  /\ revalidated' = revalidated \o CorePaths
                  /\ response' = [status |-> 500, ok |-> FALSE]
             ELSE LET projectsData == artifact.projects
                      slugs == [i \in 1..Len(projectsData) |->
                                   <<"/projects/", projectsData[i].slug>>]
                  IN  /\ revalidated' = revalidated \o CorePaths \o slugs
                      /\ response' = [status |-> 200, ok |-> TRUE]
    /\ UNCHANGED <<revalidateToken, sortVars, parseVars, deriveVars, buildVars, siteVars,
                   cacheVars>>

InitRevalidate ==
    RevalidateInit /\ SiteIdle /\ CacheIdle /\ SortIdle /\ ParseIdle /\ DeriveIdle

SpecRevalidate == InitRevalidate /\ [][POST]_vars

(***************************************************************************)
(* The module-level cache and the read functions, projects.ts:31-141, and  *)
(* the feed route's GET.                                                  *)
(***************************************************************************)
\* what getAllProjects() returns and leaves in projectsCache, projects.ts:34-44
getAllProjects ==
    IF projectsCache.loaded THEN projectsCache.items
    ELSE [i \in 1..Len(artifact.projects) |-> convertLegacyProject(artifact.projects[i])]

HasVisibility(projects, wanted) ==
    LET Test(p) == p.visibility \in wanted IN SelectSeq(projects, Test)

\* Array.prototype.slice(0, n)
SliceTo(xs, n) == SubSeq(xs, 1, IF Len(xs) < n THEN Len(xs) ELSE n)

\* text.toLowerCase().includes(searchTerm), a term being one word
IncludesTerm(text, term) == \E i \in 1..Len(text) : ToLowerCase(text[i]) = term

MatchesSearch(project, searchTerm) ==
    \/ IncludesTerm(project.title, searchTerm)
    \/ (project.description # <<>> /\ IncludesTerm(project.description, searchTerm))
    \/ IncludesTerm(project.stack, searchTerm)
    \/ IncludesTerm(project.topics, searchTerm)

\* getFilteredProjects, projects.ts:93-141
getFilteredProjects(all, filters) ==
    LET Searched(p) == MatchesSearch(p, ToLowerCase(filters.search))
        InDomain(p) == \E i \in 1..Len(p.domains) : p.domains[i] = filters.domain
        InStatus(p) == p.status = filters.status
        visible  == HasVisibility(all, {"portfolio", "featured"})
        searched == IF filters.search # "" THEN SelectSeq(visible, Searched) ELSE visible
        domained == IF filters.domain # "" THEN SelectSeq(searched, InDomain) ELSE searched
        statused == IF filters.status # "" THEN SelectSeq(domained, InStatus) ELSE domained
    IN  ArraySortBy("filtered", statused)

Filters == [search : {"", "React", "shop"}, domain : {"", "web"}, status : {"", "complete"}]

\* the items projects.json may hold in the format convertLegacyProject reads
LegacyItem(id, featured, status, endDate) ==
    [id |-> id, title |-> <<"Task", "Manager">>, description |-> <<"Shop">>,
     category |-> "Web", featured |-> featured, status |-> status,
     technologies |-> <<"React">>, highlights |-> <<>>, githubUrl |-> UrlOf(id),
     startDate |-> "2024-01-01T00:00:00Z", endDate |-> endDate]

LegacyItems ==
    {LegacyItem(id, ft, st, ed) :
        id \in RepoNames, ft \in BOOLEAN, st \in {"Completed", "In Development"},
        ed \in {JsNull, "2024-03-01T00:00:00Z"}}

\* JSON.stringify of a record of the build: a field that is undefined is left out
JsonItem(p) ==
    [slug |-> p.slug, title |-> <<p.title>>, source |-> p.source, status |-> p.status,
     tier |-> p.tier, topics |-> p.topics, domains |-> p.domains, stack |-> p.stack,
     roles |-> p.roles, repoUrl |-> p.repoUrl, stars |-> p.stars, pushedAt |-> p.pushedAt,
     visibility |-> p.visibility]

\* projects.json as the site imports it: the records of a build, or up to MaxRepos
\* items of distinct ids in the legacy format
SiteArtifacts ==
    {[written |-> TRUE, projects |-> [i \in 1..Len(a.projects) |-> JsonItem(a.projects[i])]] :
        a \in PersistedArtifacts \ {NotWritten}}
    \cup
    UNION {{[written |-> TRUE, projects |-> f] :
               f \in {g \in [1..n -> LegacyItems] :
                         \A x, y \in 1..n : x # y => g[x]["id"] # g[y]["id"]}} :
           n \in 1..MaxRepos}

SiteInit ==
    /\ SiteIdle
    /\ \E art \in SiteArtifacts : BuildLeft(art)

\* a call of a read function: the cache is filled by its getAllProjects()
Reads(name, filters, result) ==
    /\ projectsCache' = [loaded |-> TRUE, items |-> getAllProjects]
    /\ lastCall' = [name |-> name, filters |-> filters]
    /\ returned' = result
    /\ UNCHANGED <<revalidateVars, sortVars, parseVars, deriveVars, buildVars, cacheVars>>

GetAllProjects == Reads("getAllProjects", NoFilters, getAllProjects)

\* projects.ts:46-49, the result held as a list of at most one record
GetProjectBySlug ==
    \E slug \in RepoNames \cup {""} :
        LET Test(p) == p.slug = slug
        IN  Reads("getProjectBySlug", NoFilters, SliceTo(SelectSeq(getAllProjects, Test), 1))

GetFeaturedProjects ==
    Reads("getFeaturedProjects", NoFilters,
          ArraySortBy("recency", HasVisibility(getAllProjects, {"featured"})))

GetCurrentlyBuildingProjects ==
    LET Test(p) == p.status = "in-progress"
    IN  Reads("getCurrentlyBuildingProjects", NoFilters,
              SliceTo(ArraySortBy("recency", SelectSeq(getAllProjects, Test)), 6))

GetPortfolioProjects ==
    Reads("getPortfolioProjects", NoFilters,
          ArraySortBy("recency", HasVisibility(getAllProjects, {"portfolio", "featured"})))

GetLabsProjects ==
    Reads("getLabsProjects", NoFilters, ArraySortBy("recency", HasVisibility(getAllProjects, {"labs"})))

GetVenturesProjects ==
    Reads("getVenturesProjects", NoFilters,
          ArraySortBy("recency", HasVisibility(getAllProjects, {"ventures"})))

GetFilteredProjects ==
    \E filters \in Filters :
        Reads("getFilteredProjects", filters, getFilteredProjects(getAllProjects, filters))

\* the feed route's GET: getAllProjects().sort(...) sorts the cached array itself,
\* then slice(0, 25)
FeedGET ==
    LET sorted == ArraySortBy("recency", getAllProjects)
    IN  /\ projectsCache' = [loaded |-> TRUE, items |-> sorted]
        /\ lastCall' = [name |-> "GET", filters |-> NoFilters]
        /\ returned' = SliceTo(sorted, 25)
        /\ UNCHANGED <<revalidateVars, sortVars, parseVars, deriveVars, buildVars, cacheVars>>

SiteNext ==
    \/ GetAllProjects
    \/ GetProjectBySlug
    \/ GetFeaturedProjects
    \/ GetCurrentlyBuildingProjects
    \/ GetPortfolioProjects
    \/ GetLabsProjects
    \/ GetVenturesProjects
    \/ GetFilteredProjects
    \/ FeedGET

InitSite == SiteInit /\ RevalidateIdle /\ CacheIdle /\ SortIdle /\ ParseIdle /\ DeriveIdle

InitCache ==
    /\ CacheInit /\ RevalidateIdle /\ SiteIdle /\ SortIdle /\ ParseIdle /\ DeriveIdle
    /\ BuildLeft(NotWritten)

SpecCache == InitCache /\ [][CacheNext]_vars

InitApiCall ==
    /\ CacheIdle /\ RevalidateIdle /\ SiteIdle /\ SortIdle /\ ParseIdle /\ DeriveIdle
    /\ BuildLeft(NotWritten)

SpecApiCall == InitApiCall /\ [][ApiCallNext]_vars

SpecSite == InitSite /\ [][SiteNext]_vars

BuildInit ==
    /\ pc = "start"
    /\ hasNextPage = TRUE
    /\ endCursor = 0
    /\ served = <<>>
    /\ requested = <<>>
    /\ repositories = <<>>
    /\ nextRepo = 1
    /\ githubProjects = <<>>
    /\ files = <<>>
    /\ nextFile = 1
    /\ clock = "2024-03-01T00:00:00Z"
    /\ manualProjects = <<>>
    /\ manualStats = NewManualStats
    /\ stats = NewStats
    /\ artifact = NotWritten
    /\ exitCode = 0

BuildIdle ==
    /\ pc = "idle"
    /\ hasNextPage = TRUE
    /\ endCursor = 0
    /\ served = <<>>
    /\ requested = <<>>
    /\ repositories = <<>>
    /\ nextRepo = 1
    /\ githubProjects = <<>>
    /\ files = <<>>
    /\ nextFile = 1
    /\ clock = "2024-03-01T00:00:00Z"
    /\ manualProjects = <<>>
    /\ manualStats = NewManualStats
    /\ stats = NewStats
    /\ artifact = NotWritten
    /\ exitCode = 0

\* testConnection() answered: build-projects.ts:111-115
TestConnectionOk ==
    /\ pc = "start"
    /\ pc' = "fetch"
    /\ UNCHANGED <<hasNextPage, endCursor, served, requested, repositories, nextRepo, githubProjects, files,
                   nextFile, clock, manualProjects, manualStats, stats, artifact, exitCode>>
    /\ UNCHANGED <<sortVars, parseVars, deriveVars, webVars>>

\* testConnection() false: main throws, the catch of line 236 exits with 1
TestConnectionFail ==
    /\ pc = "start"
    /\ pc' = "failed"
    /\ exitCode' = 1
    /\ UNCHANGED <<hasNextPage, endCursor, served, requested, repositories, nextRepo, githubProjects, files,
                   nextFile, clock, manualProjects, manualStats, stats, artifact>>
    /\ UNCHANGED <<sortVars, parseVars, deriveVars, webVars>>

\* one turn of the while loop of fetchAllRepositories, github.ts:62-76; when the
\* host reports no further page the function returns and main records the count
FetchPage ==
    /\ pc = "fetch"
    /\ hasNextPage
    /\ \E page \in Pages(Names(served)), more \in BOOLEAN :
          LET filteredNodes == SelectSeq(page, KeepRepo)
              all == repositories \o filteredNodes
          IN  /\ Len(served) + Len(page) <= MaxRepos
              /\ more => endCursor + 1 < MaxPages
              /\ served' = served \o page
              /\ requested' = Append(requested, RequestVariables(endCursor))
              /\ repositories' = all
              /\ hasNextPage' = more
              /\ endCursor' = endCursor + 1
              /\ pc' = IF more THEN "fetch" ELSE "normalize"
              /\ stats' = IF more THEN stats ELSE [stats EXCEPT !.totalRepos = Len(all)]
    /\ UNCHANGED <<nextRepo, githubProjects, files, nextFile, clock, manualProjects,
                   manualStats, artifact, exitCode>>
    /\ UNCHANGED <<sortVars, parseVars, deriveVars, webVars>>

\* a catch in the paging loop that ends the loop and returns what was accumulated
\* where the code rethrows
FetchFailSwallowed ==
    /\ pc = "fetch"
    /\ hasNextPage
    /\ pc' = "normalize"
    /\ requested' = Append(requested, RequestVariables(endCursor))
    /\ hasNextPage' = FALSE
    /\ stats' = [stats EXCEPT !.totalRepos = Len(repositories)]
    /\ UNCHANGED <<endCursor, served, repositories, nextRepo, githubProjects, files,
                   nextFile, clock, manualProjects, manualStats, artifact, exitCode>>
    /\ UNCHANGED <<sortVars, parseVars, deriveVars, webVars>>

\* a page request throws: github.ts:77-80, rethrown through main to the exit
FetchFail ==
    /\ pc = "fetch"
    /\ hasNextPage
    /\ pc' = "failed"
    /\ requested' = Append(requested, RequestVariables(endCursor))
    /\ exitCode' = 1
    /\ UNCHANGED <<hasNextPage, endCursor, served, repositories, nextRepo, githubProjects, files,
                   nextFile, clock, manualProjects, manualStats, stats, artifact>>
    /\ UNCHANGED <<sortVars, parseVars, deriveVars, webVars>>

\* one turn of the loop over the repositories, build-projects.ts:127-159
ProcessRepo ==
    /\ pc = "normalize"
    /\ nextRepo <= Len(repositories)
    /\ IF processRepositoryThrows(repositories[nextRepo])
       THEN /\ githubProjects' = githubProjects
            /\ stats' = [stats EXCEPT !.errors = @ + 1, !.skipped = @ + 1]
       ELSE LET project == processRepository(repositories[nextRepo])
            IN  /\ githubProjects' = Append(githubProjects, project)
                /\ stats' = [stats EXCEPT
                               !.included = @ + 1,
                               !.githubCount = @ + 1,
                               !.manifestsFound =
                                   IF project.manifest # NoManifest THEN @ + 1 ELSE @]
    /\ nextRepo' = nextRepo + 1
    /\ UNCHANGED <<pc, hasNextPage, endCursor, served, requested, repositories, files, nextFile, clock,
                   manualProjects, manualStats, artifact, exitCode>>
    /\ UNCHANGED <<sortVars, parseVars, deriveVars, webVars>>

\* loadManualProjects begins: readdirSync and the extension filter, load-manual.ts:97-98
ReadDirectory ==
    /\ pc = "normalize"
    /\ nextRepo > Len(repositories)
    /\ \E dir \in Directories :
          /\ files' = SelectSeq(dir, IsManualFile)
          /\ manualStats' = [manualStats EXCEPT !.totalFiles = Len(SelectSeq(dir, IsManualFile))]
    /\ nextFile' = 1
    /\ pc' = "load"
    /\ UNCHANGED <<hasNextPage, endCursor, served, requested, repositories, nextRepo, githubProjects, clock,
                   manualProjects, stats, artifact, exitCode>>
    /\ UNCHANGED <<sortVars, parseVars, deriveVars, webVars>>

\* a turn of the loop that counts a file as valid only when it is included
LoadFileValidWhenIncluded ==
    /\ pc = "load"
    /\ nextFile <= Len(files)
    /\ \E now \in NowValues :
          /\ DateGetTime(now).n >= DateGetTime(clock).n
          /\ clock' = now
          /\ LET file == files[nextFile]
                 r    == loadManualFile(file, now)
             IN  /\ manualProjects' = IF r.outcome = "included"
                                      THEN Append(manualProjects, r.project)
                                      ELSE manualProjects
                 /\ manualStats' =
                      CASE r.outcome = "included" ->
                             [manualStats EXCEPT !.included = @ + 1, !.validFiles = @ + 1]
                        [] r.outcome = "skipped" ->
                             [manualStats EXCEPT !.skipped = @ + 1]
                        [] OTHER ->
                             [manualStats EXCEPT
                                !.invalidFiles = @ + 1,
                                !.errors = Append(@, <<file.name, r.message>>)]
    /\ nextFile' = nextFile + 1
    /\ UNCHANGED <<pc, hasNextPage, endCursor, served, requested, repositories, nextRepo, githubProjects, files,
                   stats, artifact, exitCode>>
    /\ UNCHANGED <<sortVars, parseVars, deriveVars, webVars>>

\* one turn of the loop over the files, load-manual.ts:102-200
LoadFile ==
    /\ pc = "load"
    /\ nextFile <= Len(files)
    /\ \E now \in NowValues :
          /\ DateGetTime(now).n >= DateGetTime(clock).n
          /\ clock' = now
          /\ LET file == files[nextFile]
                 r    == loadManualFile(file, now)
             IN  /\ manualProjects' = IF r.outcome = "included"
                                      THEN Append(manualProjects, r.project)
                                      ELSE manualProjects
                 /\ manualStats' =
                      CASE r.outcome = "included" ->
                             [manualStats EXCEPT !.included = @ + 1, !.validFiles = @ + 1]
                        [] r.outcome = "skipped" ->
                             [manualStats EXCEPT !.skipped = @ + 1, !.validFiles = @ + 1]
                        [] OTHER ->
                             [manualStats EXCEPT
                                !.invalidFiles = @ + 1,
                                !.errors = Append(@, <<file.name, r.message>>)]
    /\ nextFile' = nextFile + 1
    /\ UNCHANGED <<pc, hasNextPage, endCursor, served, requested, repositories, nextRepo, githubProjects, files,
                   stats, artifact, exitCode>>
    /\ UNCHANGED <<sortVars, parseVars, deriveVars, webVars>>

\* loadManualProjects returned: main merges, sorts and writes, build-projects.ts:163-210
MergeSortWrite ==
    /\ pc = "load"
    /\ nextFile > Len(files)
    /\ LET allProjects == githubProjects \o manualProjects
           sortedProjects == sortProjects(allProjects)
       IN  artifact' = [written |-> TRUE, projects |-> sortedProjects]
    /\ stats' = [stats EXCEPT !.manualCount = manualStats.totalFiles,
                              !.includedManual = manualStats.included,
                              !.skippedManual = manualStats.skipped]
    /\ pc' = "done"
    /\ UNCHANGED <<hasNextPage, endCursor, served, requested, repositories, nextRepo, githubProjects, files,
                   nextFile, clock, manualProjects, manualStats, exitCode>>
    /\ UNCHANGED <<sortVars, parseVars, deriveVars, webVars>>

Next ==
    \/ TestConnectionOk
    \/ TestConnectionFail
    \/ FetchPage
    \/ FetchFail
    \/ ProcessRepo
    \/ ReadDirectory
    \/ LoadFile
    \/ MergeSortWrite

Init == BuildInit /\ SortIdle /\ ParseIdle /\ DeriveIdle /\ WebIdle

Spec == Init /\ [][Next]_vars

(***************************************************************************)
(* The loop over the repositories on its own: the build stands before the  *)
(* loop with one fetched repository, drawn from a wider set of tag lists   *)
(* and sidecar texts than the whole build above is run with.               *)
(***************************************************************************)
RemoteTags ==
    {<<"portfolio:", "flagship">>, <<"portfolio:", "mvp">>, <<"portfolio:", "complete">>,
     <<"portfolio:", "labs">>, <<"domain:", "saas">>, <<"tier:", "flagship">>}

RemoteTexts ==
    {Plain("absent"), Plain("empty"), Plain("malformed"), Mapping(<<>>),
     Mapping([tier |-> Str("mvp")]),
     Mapping([tier |-> Str("Flagship")]),
     Mapping([tier   |-> Str("flagship"),
              topics |-> [t |-> "strlist", v |-> <<<<"portfolio:", "mvp">>>>]]),
     Mapping([status |-> Str("archived"),
              topics |-> [t |-> "strlist",
                          v |-> <<<<"portfolio:", "flagship">>, <<"domain:", "health">>>>]]),
     Mapping([topics |-> [t |-> "strlist",
                          v |-> <<<<"portfolio:", "complete">>, <<"domain:", "health">>>>]]),
     Mapping([topics |-> [t |-> "strlist", v |-> <<<<"portfolio:", "labs">>>>]])}

RemoteRepos ==
    {[name |-> "alpha", url |-> UrlOf("alpha"), description |-> ds,
      stargazerCount |-> 0, pushedAt |-> "2024-01-01T00:00:00Z", isArchived |-> FALSE,
      isFork |-> FALSE, homepageUrl |-> JsNull, openGraphImageUrl |-> im,
      topics |-> tl, text |-> tx] :
        ds \in {JsNull, "A project"}, im \in {JsNull, "https://img.example/alpha.png"},
        tl \in TagLists(RemoteTags, MaxTopics), tx \in RemoteTexts}

RemoteInit ==
    /\ pc = "normalize"
    /\ hasNextPage = FALSE
    /\ endCursor = 1
    /\ \E repo \in RemoteRepos : served = <<repo>> /\ repositories = <<repo>>
    /\ requested = <<RequestVariables(0)>>
    /\ nextRepo = 1
    /\ githubProjects = <<>>
    /\ files = <<>>
    /\ nextFile = 1
    /\ clock = "2024-03-01T00:00:00Z"
    /\ manualProjects = <<>>
    /\ manualStats = NewManualStats
    /\ stats = [NewStats EXCEPT !.totalRepos = 1]
    /\ artifact = NotWritten
    /\ exitCode = 0

InitRemote == RemoteInit /\ SortIdle /\ ParseIdle /\ DeriveIdle /\ WebIdle

SpecRemote == InitRemote /\ [][ProcessRepo]_vars

(***************************************************************************)
(* The loop over the files on its own: loadManualProjects stands before    *)
(* its loop with a directory listing in which one file is drawn from a     *)
(* wide set of contents and the others from the files of the build above.  *)
(***************************************************************************)
LoadChoices ==
    [title   : {Absent, Str("Venture")},
     source  : {Absent, Str("manual"), Str("github")},
     include : {Absent, [t |-> "bool", v |-> "true"], [t |-> "bool", v |-> "false"]},
     status  : {Absent, Str("done")},
     topics  : {AbsentList,
                [t |-> "strlist", v |-> <<IncludeTag>>],
                [t |-> "strlist", v |-> <<IncludeTag, HideTag>>],
                [t |-> "strlist", v |-> <<HideTag>>],
                [t |-> "strlist", v |-> <<<<"domain:", "saas">>>>]}]

LoadContents ==
    {Plain("malformed"), Plain("empty"), Plain("scalar")}
        \cup {Mapping(DocOf(c)) : c \in LoadChoices}

LoadNames == {"alpha", "delta", "omega"}

\* the files next to the drawn one: the default record and the one that overrides
\* its slug
LoadOthers == {d \in FileDocs : "title" \in DOMAIN d /\ "topics" \notin DOMAIN d}

\* a listing after the extension filter: n files of distinct names, the file at
\* place i with content c, the others with LoadOthers
LoadDirectory(n, nm, i, c, o) ==
    [k \in 1..n |-> [name    |-> <<nm[k], ".yml">>,
                     content |-> IF k = i THEN c ELSE Mapping(o[k])]]

DistinctNames(n) == {f \in [1..n -> LoadNames] : \A x, y \in 1..n : x # y => f[x] # f[y]}

\* what the loop over the repositories left behind: nothing, or the record of one
\* repository with tags and a sidecar manifest
LoadFetched ==
    {<<>>,
     <<[name |-> "alpha", url |-> UrlOf("alpha"), description |-> "A project",
        stargazerCount |-> 5, pushedAt |-> "2024-01-01T00:00:00Z", isArchived |-> FALSE,
        isFork |-> FALSE, homepageUrl |-> JsNull, openGraphImageUrl |-> JsNull,
        topics |-> <<<<"portfolio:", "complete">>, <<"domain:", "saas">>>>,
        text |-> Mapping([tier |-> Str("flagship")])]>>}

LoadInit ==
    /\ pc = "load"
    /\ hasNextPage = FALSE
    /\ endCursor = 1
    /\ \E fetched \in LoadFetched :
          /\ served = fetched
          /\ requested = <<RequestVariables(0)>>
          /\ repositories = fetched
          /\ nextRepo = Len(fetched) + 1
          /\ githubProjects = [i \in 1..Len(fetched) |-> processRepository(fetched[i])]
          /\ stats = [NewStats EXCEPT !.totalRepos  = Len(fetched),
                                      !.included    = Len(fetched),
                                      !.githubCount = Len(fetched)]
    /\ \/ files = <<>>
       \/ \E n \in 1..MaxFiles :
             \E nm \in DistinctNames(n), i \in 1..n, c \in LoadContents,
                o \in [1..n -> LoadOthers] :
                   files = LoadDirectory(n, nm, i, c, o)
    /\ nextFile = 1
    /\ clock = "2024-03-01T00:00:00Z"
    /\ manualProjects = <<>>
    /\ manualStats = [NewManualStats EXCEPT !.totalFiles = Len(files)]
    /\ artifact = NotWritten
    /\ exitCode = 0

LoadNext == LoadFile \/ MergeSortWrite

InitLoad == LoadInit /\ SortIdle /\ ParseIdle /\ DeriveIdle /\ WebIdle

SpecLoad == InitLoad /\ [][LoadNext]_vars

(***************************************************************************)
(* The specifications of the harnesses.                                    *)
(***************************************************************************)
InitSort == SortInit /\ ParseIdle /\ DeriveIdle /\ BuildIdle /\ WebIdle

SpecSort == InitSort /\ [][SortNext]_vars

InitSortLong == SortLongInit /\ ParseIdle /\ DeriveIdle /\ BuildIdle /\ WebIdle

SpecSortLong == InitSortLong /\ [][SortNext]_vars

InitParse == ParseInit /\ SortIdle /\ DeriveIdle /\ BuildIdle /\ WebIdle

SpecParse == InitParse /\ [][Parse]_vars

InitDerive == DeriveInit /\ SortIdle /\ ParseIdle /\ BuildIdle /\ WebIdle

SpecDerive == InitDerive /\ [][Derive]_vars

(***************************************************************************)
(* Properties of the ordering.                                             *)
(***************************************************************************)
\* rank(a) <= rank(b) on (tier rank, status rank, recency), compared as numbers:
\* a comparison with the NaN of an unparseable pushedAt is false.
TimeGeq(a, b) ==
    LET ta == DateGetTime(a.pushedAt)
        tb == DateGetTime(b.pushedAt)
    IN  ~ta.nan /\ ~tb.nan /\ ta.n >= tb.n

RankLeq(a, b) ==
    \/ tierOrder(a.tier) < tierOrder(b.tier)
    \/ /\ tierOrder(a.tier) = tierOrder(b.tier)
       /\ \/ statusOrder(a.status) < statusOrder(b.status)
          \/ /\ statusOrder(a.status) = statusOrder(b.status)
             /\ TimeGeq(a, b)

Parseable(s) == \A i \in 1..Len(s) : ~DateGetTime(s[i].pushedAt).nan

PositionIn(s, slug) == CHOOSE i \in 1..Len(s) : s[i].slug = slug

\* the recency key of a record when an unparseable pushedAt is read as the time v
TimeAt(p, v) == IF DateGetTime(p.pushedAt).nan THEN v ELSE DateGetTime(p.pushedAt).n

RankLeqAt(a, b, v) ==
    \/ tierOrder(a.tier) < tierOrder(b.tier)
    \/ /\ tierOrder(a.tier) = tierOrder(b.tier)
       /\ \/ statusOrder(a.status) < statusOrder(b.status)
          \/ /\ statusOrder(a.status) = statusOrder(b.status)
             /\ TimeAt(a, v) >= TimeAt(b, v)

\* every place an unparseable pushedAt can take among the parseable ones
UnparseablePlaces == 0..5

\* C3: every adjacent pair (a, b) of sortProjects' output satisfies
\* rank(a) <= rank(b) under tier, then status, then pushedAt descending, for every
\* schema-valid input, a record with an unparseable pushedAt included: wherever
\* the unparseable timestamps are placed in time, some such placing ranks all pairs.
C3_AdjacentPairsRanked ==
    sortPc # "input" =>
        \E v \in UnparseablePlaces :
            \A i \in 1..(Len(sortOut) - 1) : RankLeqAt(sortOut[i], sortOut[i + 1], v)

\* The same ordering on the inputs whose timestamps all parse (what the code does
\* achieve); it shows C3 fails through the unparseable timestamps alone.
SortedWhenParseable ==
    (sortPc # "input" /\ Parseable(sortIn)) =>
        \A i \in 1..(Len(sortOut) - 1) : RankLeq(sortOut[i], sortOut[i + 1])

\* C4: sortProjects is idempotent: sorting the output of sortProjects(x) again
\* gives the same records in the same positions.
C4_SortIdempotent ==
    sortPc = "resorted" => sortAgain = sortOut

\* a run in which the first sort moved records, one of them with an unparseable
\* pushedAt, and the second sort has been applied
C4_Witness ==
    /\ sortPc = "resorted"
    /\ Len(sortIn) >= 3
    /\ sortOut # sortIn
    /\ ~Parseable(sortIn)

\* C5: sortProjects is stable: two records equal on tier, status and pushedAt keep
\* their relative input order in the output.
C5_SortStable ==
    sortPc # "input" =>
        \A i, j \in 1..Len(sortIn) :
            (/\ i < j
             /\ sortIn[i].tier = sortIn[j].tier
             /\ sortIn[i].status = sortIn[j].status
             /\ sortIn[i].pushedAt = sortIn[j].pushedAt)
            => PositionIn(sortOut, sortIn[i].slug) < PositionIn(sortOut, sortIn[j].slug)

\* The output is a permutation of the input.
SortPermutes ==
    sortPc # "input" =>
        /\ Len(sortOut) = Len(sortIn)
        /\ Range(sortOut) = Range(sortIn)

(***************************************************************************)
(* Properties of manifest parsing and field derivation.                    *)
(***************************************************************************)
\* what the manifest schema asks of a document: each declared field has its type,
\* and status, tier and visibility lie in their enums
DocFieldBad(key, val) ==
    \/ key \in {"title", "live_url", "demo_url", "repo_url", "homepage_url"} /\ val.t # "str"
    \/ key \in {"stack", "roles", "highlights", "topics"} /\ val.t # "strlist"
    \/ key = "status" /\ ~(val.t = "str" /\ val.v \in {"complete", "in-progress", "archived"})
    \/ key = "tier" /\ ~(val.t = "str" /\ val.v \in {"flagship", "mvp", "experiment"})
    \/ key = "visibility"
         /\ ~(val.t = "str" /\ val.v \in {"featured", "portfolio", "labs", "ventures"})

TextUnusable(text) ==
    \/ text.kind \in {"absent", "empty", "malformed", "scalar"}
    \/ text.kind = "mapping" /\ \E k \in DOMAIN text.doc : DocFieldBad(k, text.doc[k])

SatisfiesManifestSchema(m, text) ==
    /\ text.kind = "mapping"
    /\ \A k \in DOMAIN m :
          /\ k \in DOMAIN text.doc
          /\ ~DocFieldBad(k, text.doc[k])
          /\ m[k] = text.doc[k].v

\* C6: parseManifest never raises; a null, empty, malformed or schema-invalid text
\* gives null, and every result is null or satisfies the manifest schema.
C6_ParseNeverRaises ==
    parsePc = "parsed" =>
        /\ ~parseOut.threw
        /\ TextUnusable(parseText) => parseOut.value = Null
        /\ parseOut.value # Null => SatisfiesManifestSchema(parseOut.value, parseText)

\* a document whose status is outside the enum was parsed
C6_Witness ==
    /\ parsePc = "parsed"
    /\ parseText.kind = "mapping"
    /\ "status" \in DOMAIN parseText.doc
    /\ parseText.doc["status"].v = "done"
    /\ parseOut.value = Null

\* a valid document was parsed to a manifest
ParsedSomeManifest ==
    /\ parsePc = "parsed"
    /\ parseOut.value # Null
    /\ "tier" \in DOMAIN parseOut.value

RECURSIVE FirstMatch(_, _, _)
FirstMatch(topics, wanted, default) ==
    IF topics = <<>> THEN default
    ELSE IF Head(topics) \in wanted THEN Head(topics)[2]
    ELSE FirstMatch(Tail(topics), wanted, default)

StatusTags == {<<"portfolio:", "complete">>, <<"portfolio:", "archived">>}

VisibilityTags ==
    {<<"portfolio:", "featured">>, <<"portfolio:", "portfolio">>,
     <<"portfolio:", "labs">>, <<"portfolio:", "ventures">>}

\* C7: status is manifest.status if declared, otherwise the value of the first tag
\* that is portfolio:complete or portfolio:archived (whatever other portfolio: tags
\* precede it), otherwise in-progress.
C7_StatusPrecedence ==
    derivePc = "derived" =>
        deriveOut.status =
            IF Has(deriveManifest, "status") THEN deriveManifest["status"]
            ELSE FirstMatch(deriveTopics, StatusTags, "in-progress")

\* C8: visibility is manifest.visibility if declared, otherwise the value of the
\* first tag that is portfolio:featured, :portfolio, :labs or :ventures (whatever
\* status tag precedes it), otherwise portfolio.
C8_VisibilityPrecedence ==
    derivePc = "derived" =>
        deriveOut.visibility =
            IF Has(deriveManifest, "visibility") THEN deriveManifest["visibility"]
            ELSE FirstMatch(deriveTopics, VisibilityTags, "portfolio")

\* What the code does instead: only the first portfolio: tag of the list is looked at.
FirstPortfolioTag(topics) ==
    LET p == SelectSeq(topics, IsPortfolioTopic) IN IF p = <<>> THEN <<>> ELSE p[1]

StatusFromFirstPortfolioTag ==
    derivePc = "derived" =>
        deriveOut.status =
            IF Has(deriveManifest, "status") THEN deriveManifest["status"]
            ELSE IF FirstPortfolioTag(deriveTopics) \in StatusTags
                 THEN FirstPortfolioTag(deriveTopics)[2]
                 ELSE "in-progress"

VisibilityFromFirstPortfolioTag ==
    derivePc = "derived" =>
        deriveOut.visibility =
            IF Has(deriveManifest, "visibility") THEN deriveManifest["visibility"]
            ELSE IF FirstPortfolioTag(deriveTopics) \in VisibilityTags
                 THEN FirstPortfolioTag(deriveTopics)[2]
                 ELSE "portfolio"

(***************************************************************************)
(* Properties of the build.                                                *)
(***************************************************************************)
WithSlug(projects, slug) == {i \in 1..Len(projects) : projects[i].slug = slug}

\* C1: no two records of the emitted collection share a slug.
C1_SlugsUnique ==
    artifact.written =>
        \A i, j \in 1..Len(artifact.projects) :
            i # j => artifact.projects[i].slug # artifact.projects[j].slug

\* C2: when a remote record and an included local record have the same slug, the
\* output holds exactly one record with that slug, the remote-derived one.
C2_RemoteWinsOnCollision ==
    artifact.written =>
        \A g \in 1..Len(githubProjects), m \in 1..Len(manualProjects) :
            githubProjects[g].slug = manualProjects[m].slug =>
                /\ Cardinality(WithSlug(artifact.projects, githubProjects[g].slug)) = 1
                /\ \A i \in WithSlug(artifact.projects, githubProjects[g].slug) :
                      artifact.projects[i] = githubProjects[g]

\* the tier a repository's sidecar declares, read off the document: none when the
\* sidecar is missing, unparseable or fails the schema
DeclaredTier(repo) ==
    IF ~TextUnusable(repo.text) /\ "tier" \in DOMAIN repo.text.doc
    THEN repo.text.doc["tier"].v
    ELSE "experiment"

\* C9: the tier of a remote record is the tier its manifest declares, experiment
\* when it declares none, whatever the tags; it is still so after the build's
\* validation step.
C9_RemoteTierFromManifestOnly ==
    \A i \in 1..Len(githubProjects) :
        githubProjects[i].tier = DeclaredTier(repositories[i])

\* a repository tagged portfolio:flagship whose manifest declares another tier or
\* none has been processed
C9_Witness ==
    /\ Len(githubProjects) = 1
    /\ Includes(repositories[1].topics, <<"portfolio:", "flagship">>)
    /\ githubProjects[1].tier # "flagship"

RECURSIVE DomainsOf(_)
DomainsOf(topics) ==
    IF topics = <<>> THEN <<>>
    ELSE IF Head(topics)[1] = "domain:"
         THEN <<Tail(Head(topics))>> \o DomainsOf(Tail(topics))
         ELSE DomainsOf(Tail(topics))

NoRepeat(s) == \A i, j \in 1..Len(s) : i # j => s[i] # s[j]

\* C10: the domains of every canonical record, remote or local, are its domain:
\* tags with the prefix stripped, in order of first appearance, none twice.
C10_DomainsOrderedSet ==
    \A p \in Range(githubProjects) \cup Range(manualProjects) :
        /\ p.domains = SetSpread(DomainsOf(p.topics), {})
        /\ NoRepeat(p.domains)

\* The remote half of C10: the tag union is duplicate-free, so are the domains.
RemoteDomainsOrderedSet ==
    \A i \in 1..Len(githubProjects) :
        /\ githubProjects[i].domains = SetSpread(DomainsOf(githubProjects[i].topics), {})
        /\ NoRepeat(githubProjects[i].domains)

(***************************************************************************)
(* Properties of the derivation, one tag list against another.             *)
(***************************************************************************)
HasDomainPrefix(tag) == Len(tag) >= 1 /\ tag[1] = "domain:"

RemoveAt(s, i) == SubSeq(s, 1, i - 1) \o SubSeq(s, i + 1, Len(s))

InsertAt(s, i, x) == SubSeq(s, 1, i - 1) \o <<x>> \o SubSeq(s, i, Len(s))

\* the tag lists one step from topics: one tag of the given set put in anywhere,
\* or one tag of the set taken out.  Two lists that differ only in tags of the
\* set are joined by a chain of such steps.
OneTagEdits(topics, tags) ==
    {RemoveAt(topics, i) : i \in {j \in 1..Len(topics) : topics[j] \in tags}}
        \cup {InsertAt(topics, i, t) : i \in 1..(Len(topics) + 1), t \in tags}

DomainTagsOf(tags) == {t \in tags : HasDomainPrefix(t)}

\* C11: for the same manifest, tag lists that differ only in domain: tags give the
\* same status, tier and visibility, and tag lists that differ only in other tags
\* give the same domains.
C11_DerivationIndependence ==
    derivePc = "derived" =>
        /\ \A other \in OneTagEdits(deriveTopics, DomainTagsOf(DeriveTags)) :
              /\ deriveStatus(deriveManifest, other) = deriveOut.status
              /\ deriveTier(deriveManifest) = deriveOut.tier
              /\ deriveVisibility(deriveManifest, other) = deriveOut.visibility
        /\ \A other \in OneTagEdits(deriveTopics, DeriveTags \ DomainTagsOf(DeriveTags)) :
              extractDomainsFromTopics(other) = deriveOut.domains

\* a list that begins with a domain: tag and goes on with portfolio:complete has
\* been derived from, with no status in the manifest
C11_Witness ==
    /\ derivePc = "derived"
    /\ ~Has(deriveManifest, "status")
    /\ Len(deriveTopics) >= 2
    /\ HasDomainPrefix(deriveTopics[1])
    /\ deriveTopics[2] = <<"portfolio:", "complete">>
    /\ deriveOut.status = "complete"
    /\ deriveOut.domains # <<>>

(***************************************************************************)
(* Properties of the remote records.                                       *)
(***************************************************************************)
DeclaresRepoUrl(repo) == repo.text.kind = "mapping" /\ "repo_url" \in DOMAIN repo.text.doc

\* C12: the repoUrl of every remote record is the url of its host record, whatever
\* the manifest declares, in the loop's result and in the written artifact.
C12_RepoUrlFromHost ==
    /\ \A i \in 1..Len(githubProjects) : githubProjects[i].repoUrl = repositories[i].url
    /\ artifact.written =>
          \A k \in 1..Len(artifact.projects) :
              artifact.projects[k].source = "github" =>
                  \E i \in 1..Len(repositories) :
                      /\ repositories[i].name = artifact.projects[k].slug
                      /\ repositories[i].url = artifact.projects[k].repoUrl

\* the artifact was written with a remote record whose manifest declares a repo_url
C12_Witness ==
    /\ artifact.written
    /\ \E i \in 1..Len(repositories) :
          /\ DeclaresRepoUrl(repositories[i])
          /\ repositories[i].text.doc["repo_url"].v # repositories[i].url
          /\ \E k \in 1..Len(artifact.projects) :
                /\ artifact.projects[k].source = "github"
                /\ artifact.projects[k].slug = repositories[i].name

HasPortfolioTag(topics) ==
    \E i \in 1..Len(topics) : Len(topics[i]) >= 1 /\ topics[i][1] = "portfolio:"

\* C13: normalizeProject never raises: every repository the loop has passed gave
\* a record and none was counted as an error or as skipped; what the host record
\* lacks is undefined in the record, and without a usable sidecar the record has
\* its repository's name as title, no stack, no roles, tier experiment and,
\* without portfolio: tags, status in-progress and visibility portfolio.
C13_NormalizeAlwaysSucceeds ==
    /\ stats.errors = 0
    /\ stats.skipped = 0
    /\ Len(githubProjects) = nextRepo - 1
    /\ \A i \in 1..Len(githubProjects) :
          LET repo == repositories[i]
              p    == githubProjects[i]
          IN  /\ p.slug = repo.name
              /\ p.source = "github"
              /\ repo.description = JsNull => p.description = Undefined
              /\ repo.openGraphImageUrl = JsNull => p.ogImage = Undefined
              /\ TextUnusable(repo.text) =>
                    /\ p.title = repo.name
                    /\ p.stack = <<>>
                    /\ p.roles = <<>>
                    /\ p.tier = "experiment"
                    /\ repo.homepageUrl = JsNull => p.homepageUrl = Undefined
                    /\ ~HasPortfolioTag(repo.topics) =>
                          /\ p.status = "in-progress"
                          /\ p.visibility = "portfolio"

\* a repository with a malformed sidecar, no description and no image went through
\* the loop
C13_Witness ==
    /\ nextRepo = 2
    /\ repositories[1].text.kind = "malformed"
    /\ repositories[1].description = JsNull
    /\ repositories[1].openGraphImageUrl = JsNull
    /\ Len(githubProjects) = 1
    /\ stats.included = 1

(***************************************************************************)
(* Properties of the paged fetch.                                          *)
(***************************************************************************)
FlaggedOut(repo) == repo.isFork \/ repo.isArchived

RECURSIVE Unflagged(_)
Unflagged(nodes) ==
    IF nodes = <<>> THEN <<>>
    ELSE IF FlaggedOut(Head(nodes)) THEN Unflagged(Tail(nodes))
    ELSE <<Head(nodes)>> \o Unflagged(Tail(nodes))

\* C14: what fetchAllRepositories has accumulated, and at its end returns, is
\* exactly the served records flagged neither fork nor archived, in page order;
\* no flagged record is in it, among the remote records or in the artifact.
C14_FetchKeepsUnflaggedOnly ==
    /\ repositories = Unflagged(served)
    /\ \A i \in 1..Len(repositories) : ~FlaggedOut(repositories[i])
    /\ \A k \in 1..Len(githubProjects) :
          \E i \in 1..Len(served) :
              ~FlaggedOut(served[i]) /\ served[i].name = githubProjects[k].slug
    /\ artifact.written =>
          \A k \in 1..Len(artifact.projects) :
              artifact.projects[k].source = "github" =>
                  \E i \in 1..Len(served) :
                      /\ ~FlaggedOut(served[i])
                      /\ served[i].name = artifact.projects[k].slug
                      /\ served[i].url = artifact.projects[k].repoUrl

\* two pages were served, a flagged repository on the first and one that is not
\* flagged on the second, and the artifact was written
C14_Witness ==
    /\ artifact.written
    /\ endCursor = 2
    /\ Len(served) = 2
    /\ FlaggedOut(served[1])
    /\ ~FlaggedOut(served[2])
    /\ \E k \in 1..Len(artifact.projects) : artifact.projects[k].slug = served[2].name

(***************************************************************************)
(* Properties of the failures.                                             *)
(***************************************************************************)
\* the step ends the run with a failure: non-zero status, nothing loaded from
\* data/manual, nothing written
Aborts ==
    /\ pc' = "failed"
    /\ exitCode' # 0
    /\ artifact' = artifact
    /\ ~artifact'.written
    /\ manualProjects' = <<>>
    /\ served' = served

\* C15: a connectivity test that does not succeed (a step from the start that
\* does not enter the paging loop) and a page request that fails (a step of the
\* paging loop that receives no page) end the run with a non-zero status and leave
\* the artifact as it was; after that nothing happens: no page is requested again,
\* no record is emitted.
C15_FailureIsFatal ==
    [][/\ (pc = "start" /\ pc' # "fetch") => Aborts
       /\ (pc = "fetch" /\ endCursor' = endCursor) => Aborts
       /\ pc = "failed" => UNCHANGED buildVars]_vars

\* the request of the second page failed after the first page gave a record
C15_Witness ==
    /\ pc = "failed"
    /\ exitCode = 1
    /\ endCursor = 1
    /\ Len(repositories) >= 1
    /\ ~artifact.written

(***************************************************************************)
(* Properties of the local loader, read off the files.                     *)
(***************************************************************************)
Declared(file, key) == file.content.kind = "mapping" /\ key \in DOMAIN file.content.doc

\* the file cannot give a record: its text is no mapping, it has no title, its
\* source is not manual, or a declared value is outside the canonical schema
FileFails(file) ==
    \/ file.content.kind # "mapping"
    \/ ~Declared(file, "title")
    \/ ~Declared(file, "source")
    \/ file.content.doc["source"] # [t |-> "str", v |-> "manual"]
    \/ \E k \in DOMAIN file.content.doc : DocFieldBad(k, file.content.doc[k])

\* the record's topics and include flag once the defaults are in
TopicsOf(file) ==
    IF Declared(file, "topics") THEN file.content.doc["topics"].v
    ELSE <<<<"portfolio:", "include">>>>

IncludeOf(file) ==
    IF Declared(file, "include") THEN file.content.doc["include"].v = "true" ELSE TRUE

Hidden(file) == \E i \in 1..Len(TopicsOf(file)) : TopicsOf(file)[i] = <<"portfolio:", "hide">>

TaggedInclude(file) ==
    \E i \in 1..Len(TopicsOf(file)) : TopicsOf(file)[i] = <<"portfolio:", "include">>

\* a step of the loop over the files
LoadsFile == pc = "load" /\ nextFile' = nextFile + 1

\* C16: a file that fails is isolated: it adds no project, one message naming it
\* is appended to stats.errors, invalidFiles goes up by one, included and skipped
\* stay; the loop goes on, and a file that does not fail is counted valid and adds
\* no error whatever the files before it were; at the end every file is counted.
C16_FileFailureIsolated ==
    [][/\ LoadsFile =>
             /\ pc' = "load"
             /\ files' = files
             /\ IF FileFails(files[nextFile])
                THEN /\ manualProjects' = manualProjects
                     /\ Len(manualStats'.errors) = Len(manualStats.errors) + 1
                     /\ SubSeq(manualStats'.errors, 1, Len(manualStats.errors))
                            = manualStats.errors
                     /\ manualStats'.errors[Len(manualStats'.errors)][1] = files[nextFile].name
                     /\ manualStats'.invalidFiles = manualStats.invalidFiles + 1
                     /\ manualStats'.validFiles = manualStats.validFiles
                     /\ manualStats'.included = manualStats.included
                     /\ manualStats'.skipped = manualStats.skipped
                ELSE /\ manualStats'.errors = manualStats.errors
                     /\ manualStats'.invalidFiles = manualStats.invalidFiles
                     /\ manualStats'.validFiles = manualStats.validFiles + 1
                     /\ manualStats'.included + manualStats'.skipped
                            = manualStats.included + manualStats.skipped + 1
                     /\ Len(manualProjects') = Len(manualProjects)
                            + (manualStats'.included - manualStats.included)
       /\ pc' = "done" =>
             manualStats'.validFiles + manualStats'.invalidFiles = Len(files')]_vars

\* a file that does not parse came first and the file after it was included
C16_Witness ==
    /\ nextFile = 3
    /\ files[1].content.kind = "malformed"
    /\ manualStats.invalidFiles = 1
    /\ Len(manualStats.errors) = 1
    /\ manualStats.errors[1][1] = files[1].name
    /\ manualStats.included = 1
    /\ Len(manualProjects) = 1

HasTag(p, tag) == \E i \in 1..Len(p.topics) : p.topics[i] = tag

\* C17: a valid local record with the hide tag is never included and is counted
\* as skipped, whatever its include flag and whether or not it also has the
\* include tag; no local record of the output carries the hide tag.
C17_HideTagExcludes ==
    [][/\ (LoadsFile /\ ~FileFails(files[nextFile]) /\ Hidden(files[nextFile])) =>
             /\ manualProjects' = manualProjects
             /\ manualStats'.skipped = manualStats.skipped + 1
             /\ manualStats'.included = manualStats.included
       /\ \A k \in 1..Len(manualProjects') :
             ~HasTag(manualProjects'[k], <<"portfolio:", "hide">>)
       /\ artifact'.written =>
             \A k \in 1..Len(artifact'.projects) :
                 artifact'.projects[k].source = "manual" =>
                     ~HasTag(artifact'.projects[k], <<"portfolio:", "hide">>)]_vars

\* a valid file with include: true, the include tag and the hide tag was passed
\* and skipped
C17_Witness ==
    /\ nextFile = 2
    /\ ~FileFails(files[1])
    /\ Declared(files[1], "include")
    /\ IncludeOf(files[1])
    /\ Hidden(files[1])
    /\ TaggedInclude(files[1])
    /\ manualStats.skipped = 1
    /\ manualProjects = <<>>

\* C18: a valid local record without the hide tag is included exactly when its
\* include flag, true if not declared, is true and its topics have the include
\* tag; otherwise it is counted as skipped.
C18_InclusionDualGate ==
    [][(LoadsFile /\ ~FileFails(files[nextFile]) /\ ~Hidden(files[nextFile])) =>
          IF IncludeOf(files[nextFile]) /\ TaggedInclude(files[nextFile])
          THEN /\ Len(manualProjects') = Len(manualProjects) + 1
               /\ SubSeq(manualProjects', 1, Len(manualProjects)) = manualProjects
               /\ manualStats'.included = manualStats.included + 1
               /\ manualStats'.skipped = manualStats.skipped
          ELSE /\ manualProjects' = manualProjects
               /\ manualStats'.skipped = manualStats.skipped + 1
               /\ manualStats'.included = manualStats.included]_vars

\* a valid file with the include tag and include: false was skipped, then a valid
\* file with include: true by default and the tag was included
C18_Witness ==
    /\ nextFile = 3
    /\ ~FileFails(files[1]) /\ ~Hidden(files[1])
    /\ ~IncludeOf(files[1]) /\ TaggedInclude(files[1])
    /\ ~FileFails(files[2]) /\ ~Hidden(files[2])
    /\ IncludeOf(files[2]) /\ TaggedInclude(files[2])
    /\ manualStats.skipped = 1
    /\ manualStats.included = 1

OmitsAll(file, keys) == \A k \in keys : ~Declared(file, k)

Last(s) == s[Len(s)]

\* C19: a valid local record that declares none of include, status, tier, topics
\* and slug is included with status in-progress, tier mvp, topics
\* [portfolio:include], stars 0, source manual and the file's name without its
\* extension as slug; a declared slug replaces the file-name slug, and a record
\* without visibility gets ventures.
C19_LocalDefaults ==
    [][(LoadsFile /\ ~FileFails(files[nextFile])) =>
          LET file == files[nextFile]
              p    == Last(manualProjects')
          IN  /\ OmitsAll(file, {"include", "status", "tier", "topics", "slug"}) =>
                    /\ Len(manualProjects') = Len(manualProjects) + 1
                    /\ manualStats'.included = manualStats.included + 1
                    /\ p.status = "in-progress"
                    /\ p.tier = "mvp"
                    /\ p.topics = <<<<"portfolio:", "include">>>>
                    /\ p.stars = 0
                    /\ p.source = "manual"
                    /\ p.slug = file.name[1]
              /\ Len(manualProjects') = Len(manualProjects) + 1 =>
                    /\ p.slug = IF Declared(file, "slug")
                                THEN file.content.doc["slug"].v ELSE file.name[1]
                    /\ ~Declared(file, "visibility") => p.visibility = "ventures"
                    /\ p.source = "manual"
                    /\ p.stars = 0]_vars

\* a file with title and source only was included under its file name, and a
\* file that declares a slug under that slug
C19_Witness ==
    /\ nextFile = 3
    /\ Len(manualProjects) = 2
    /\ DOMAIN files[1].content.doc = {"title", "source"}
    /\ manualProjects[1].slug = files[1].name[1]
    /\ manualProjects[1].tier = "mvp"
    /\ Declared(files[2], "slug")
    /\ manualProjects[2].slug = files[2].content.doc["slug"].v
    /\ manualProjects[2].slug # files[2].name[1]

(***************************************************************************)
(* Properties of the emitted records.                                      *)
(***************************************************************************)
SatisfiesCanonicalSchema(p) ==
    /\ p.status \in {"complete", "in-progress", "archived"}
    /\ p.tier \in {"flagship", "mvp", "experiment"}
    /\ p.visibility \in {"featured", "portfolio", "labs", "ventures"}
    /\ p.source \in {"github", "manual"}
    /\ p.slug \notin {"<undefined>", "<null>"}
    /\ p.title \notin {"<undefined>", "<null>"}
    /\ p.description # "<null>"
    /\ p.stars \in Nat

DeclaresOutsideEnum(file) ==
    /\ file.content.kind = "mapping"
    /\ \E k \in {"status", "tier", "visibility"} \cap DOMAIN file.content.doc :
          DocFieldBad(k, file.content.doc[k])

ValidSidecar(repo) == parseManifest(repo.text).value # Null

\* C21: a remote record whose sidecar manifest parsed carries that manifest in its
\* manifest field, and manifestsFound is the number of processed repositories with
\* a valid sidecar manifest
C21_ManifestRetained ==
    /\ \A i \in 1..Len(githubProjects) :
          ValidSidecar(repositories[i]) =>
              githubProjects[i].manifest = parseManifest(repositories[i].text).value
    /\ stats.manifestsFound =
           Cardinality({i \in 1..(nextRepo - 1) : ValidSidecar(repositories[i])})

(***************************************************************************)
(* C22.  The emitted order and the order in which the files are read.      *)
(***************************************************************************)
\* the projects loadManualProjects returns for a listing when every file is read
\* at the same clock reading
RECURSIVE loadManualProjects(_, _)
loadManualProjects(listing, now) ==
    IF listing = <<>> THEN <<>>
    ELSE LET r == loadManualFile(Head(listing), now)
         IN  (IF r.outcome = "included" THEN <<r.project>> ELSE <<>>)
                 \o loadManualProjects(Tail(listing), now)

Reorderings(n) == {f \in [1..n -> 1..n] : \A x, y \in 1..n : x # y => f[x] # f[y]}

ReadAtOneInstant == \A i \in 1..Len(manualProjects) : manualProjects[i].pushedAt = clock

\* C22: with the remote records fixed, reading the same files in any other order
\* emits the same records in the same positions (all files read at one clock
\* reading, so that the records themselves are the same)
C22_LoadOrderIrrelevant ==
    (pc = "done" /\ ReadAtOneInstant) =>
        \A f \in Reorderings(Len(files)) :
            sortProjects(githubProjects
                           \o loadManualProjects([k \in 1..Len(files) |-> files[f[k]]], clock))
                = artifact.projects

(***************************************************************************)
(* C23.  The revalidation endpoint needs the configured token.             *)
(***************************************************************************)
Received == Len(requests') = Len(requests) + 1

LastHeader == requests'[Len(requests')]

\* C23: a request whose x-revalidate-token header is absent or differs from the
\* configured REVALIDATE_TOKEN, and every request when no token is configured,
\* revalidates nothing and is answered 401
C23_RevalidateNeedsToken ==
    [][Received =>
          ((revalidateToken = Undefined \/ LastHeader = JsNull
                \/ LastHeader # revalidateToken) =>
              /\ revalidated' = revalidated
              /\ response'.status = 401
              /\ ~response'.ok)]_vars

C23_Witness ==
    /\ Len(requests) = 3
    /\ revalidateToken = "secret"
    /\ requests[1] = "guess"
    /\ requests[2] = JsNull
    /\ requests[3] = "secret"
    /\ artifact.written
    /\ Len(artifact.projects) = 2
    /\ response.status = 200
    /\ Len(revalidated) = 5

(***************************************************************************)
(* C24.  The paging loop is sequential and follows the cursor.             *)
(***************************************************************************)
\* what the requests issued so far look like
RequestsFollowCursor ==
    /\ \A i \in 1..Len(requested) :
          /\ requested[i].first = 100
          /\ requested[i].after = CursorOf(i - 1)
    /\ requested # <<>> => requested[1].after.null
    /\ Len(requested) \in {endCursor, endCursor + 1}
    /\ Len(requested) = endCursor + 1 => pc = "failed"
    /\ pc = "fetch" => hasNextPage
    /\ pc \in {"normalize", "load", "done"} => ~hasNextPage /\ Len(requested) = endCursor

\* the loop is left with its accumulation exactly by the step that receives a
\* response without a further page, and every response comes with one request
ReturnsOnLastPage ==
    /\ (pc = "fetch" /\ pc' = "normalize") <=>
           (pc = "fetch" /\ endCursor' = endCursor + 1 /\ ~hasNextPage')
    /\ endCursor' # endCursor =>
           /\ endCursor' = endCursor + 1
           /\ requested' = Append(requested, [first |-> 100, after |-> CursorOf(endCursor)])

\* C24: the first request carries a null cursor, each later one the endCursor of
\* the response before it, a request is issued only when every earlier one was
\* answered, every request asks for 100 records, and the loop returns exactly
\* after the first response whose hasNextPage is false
C24_PagingSequential == []RequestsFollowCursor /\ [][ReturnsOnLastPage]_vars

C24_Witness ==
    /\ pc = "normalize"
    /\ Len(requested) = 2
    /\ requested[1].after.null
    /\ requested[2].after = CursorOf(1)
    /\ endCursor = 2
    /\ ~hasNextPage
    /\ Len(repositories) = 2

(***************************************************************************)
(* C25.  Manifest topics are unioned with the host tags before derivation. *)
(***************************************************************************)
ManifestOf(repo) == parseManifest(repo.text).value

ManifestTopicsOf(repo) ==
    IF ManifestOf(repo) # Null /\ "topics" \in DOMAIN ManifestOf(repo)
    THEN ManifestOf(repo)["topics"] ELSE <<>>

NoDuplicates(xs) == \A i, j \in 1..Len(xs) : i # j => xs[i] # xs[j]

\* C25: the topics of a remote record are the host tags followed by the manifest
\* topics, without duplicates, and domains, status and visibility are derived from
\* this union
C25_TopicsUnionFeedsDerivation ==
    \A i \in 1..Len(githubProjects) :
        LET repo   == repositories[i]
            p      == githubProjects[i]
            m      == ManifestOf(repo)
            joined == repo.topics \o ManifestTopicsOf(repo)
        IN  /\ NoDuplicates(p.topics)
            /\ Range(p.topics) = Range(joined)
            /\ \A a, b \in 1..Len(p.topics) :
                  a < b => \E x, y \in 1..Len(joined) :
                              /\ joined[x] = p.topics[a] /\ joined[y] = p.topics[b]
                              /\ x < y
                              /\ \A z \in 1..(y - 1) : joined[z] # p.topics[b]
            /\ p.domains = extractDomainsFromTopics(p.topics)
            /\ p.status = validateStatus(deriveStatus(m, p.topics))
            /\ p.visibility = validateVisibility(deriveVisibility(m, p.topics))
            /\ \A t \in Range(ManifestTopicsOf(repo)) :
                  HasDomainPrefix(t) => Replace(t, "domain:") \in Range(p.domains)
            /\ (repo.topics = <<>> /\ ~Has(m, "status")
                   /\ ManifestTopicsOf(repo) # <<>>
                   /\ ManifestTopicsOf(repo)[1] = <<"portfolio:", "complete">>)
                  => p.status = "complete"
            /\ (repo.topics = <<>> /\ ~Has(m, "visibility")
                   /\ ManifestTopicsOf(repo) # <<>>
                   /\ ManifestTopicsOf(repo)[1] = <<"portfolio:", "labs">>)
                  => p.visibility = "labs"

\* a manifest that alone declares a domain tag and a portfolio tag, and no status
C25_Witness ==
    /\ nextRepo = 2
    /\ Len(githubProjects) = 1
    /\ repositories[1].topics = <<>>
    /\ ManifestTopicsOf(repositories[1]) # <<>>
    /\ ~Has(ManifestOf(repositories[1]), "status")
    /\ \E t \in Range(ManifestTopicsOf(repositories[1])) : HasDomainPrefix(t)
    /\ githubProjects[1].domains # <<>>
    /\ githubProjects[1].status = "complete"

(***************************************************************************)
(* C26.  The counters of the local loader add up.                          *)
(***************************************************************************)
LoaderReturned == pc = "done" \/ (pc = "load" /\ nextFile > Len(files))

\* C26: once loadManualProjects has returned, totalFiles = validFiles +
\* invalidFiles, validFiles = included + skipped, invalidFiles is the number of
\* error messages and the number of returned projects is included; while the loop
\* runs, every file read so far is counted in exactly one of the three
C26_LoaderCountsAddUp ==
    /\ pc \in {"load", "done"} =>
          /\ manualStats.totalFiles = Len(files)
          /\ manualStats.validFiles + manualStats.invalidFiles = nextFile - 1
          /\ manualStats.validFiles = manualStats.included + manualStats.skipped
          /\ manualStats.invalidFiles = Len(manualStats.errors)
          /\ Len(manualProjects) = manualStats.included
          /\ manualStats.invalidFiles
                = Cardinality({i \in 1..(nextFile - 1) : FileFails(files[i])})
    /\ LoaderReturned =>
          /\ manualStats.totalFiles = manualStats.validFiles + manualStats.invalidFiles
          /\ manualStats.validFiles = manualStats.included + manualStats.skipped
          /\ manualStats.invalidFiles = Len(manualStats.errors)
          /\ Len(manualProjects) = manualStats.included

\* two files were read: one was included, one was invalid
C26_Witness ==
    /\ pc = "done"
    /\ manualStats.totalFiles = 2
    /\ manualStats.invalidFiles = 1
    /\ manualStats.skipped = 0
    /\ manualStats.included = 1
    /\ Len(manualStats.errors) = 1
    /\ Len(manualProjects) = 1

(***************************************************************************)
(* C27.  Reads leave the project cache in the order of the artifact.       *)
(***************************************************************************)
PersistedOrder ==
    [i \in 1..Len(artifact.projects) |-> convertLegacyProject(artifact.projects[i])]

\* the artifact lists its records in the order of tier, status and recency
PersistedCanonically == sortProjects(PersistedOrder) = PersistedOrder

\* C27: whatever read functions were called on an artifact in canonical order,
\* the cache holds the records in the order of the artifact, and that is what
\* getAllProjects returns
C27_ReadsKeepCacheOrder ==
    PersistedCanonically =>
        /\ projectsCache.loaded => projectsCache.items = PersistedOrder
        /\ lastCall.name = "getAllProjects" => returned = PersistedOrder

(***************************************************************************)
(* C28.  getFilteredProjects orders as compareProjects does and returns    *)
(* only what passes the filters.                                           *)
(***************************************************************************)
Sign(v) == IF v.nan THEN "NaN" ELSE IF v.n < 0 THEN "-" ELSE IF v.n = 0 THEN "0" ELSE "+"

PassesFilters(p, filters) ==
    /\ p.visibility \in {"portfolio", "featured"}
    /\ filters.search # "" => MatchesSearch(p, ToLowerCase(filters.search))
    /\ filters.domain # "" => filters.domain \in Range(p.domains)
    /\ filters.status # "" => p.status = filters.status

\* C28: after getFilteredProjects, its comparator and compareProjects have the
\* same sign on every pair of cached records and on every pair of tiers, statuses
\* and timestamps a record can carry, the result is the cached records
\* that are visible on the portfolio and pass each non-empty filter, and they
\* come in the order sortProjects gives them
C28_FilteredOrderIsCanonical ==
    lastCall.name = "getFilteredProjects" =>
        LET Passes(p) == PassesFilters(p, lastCall.filters)
        IN  /\ \A a, b \in Range(projectsCache.items) :
                  Sign(compareFiltered(a, b)) = Sign(compareProjects(a, b))
            /\ \A a, b \in SortKinds :
                  Sign(compareFiltered(a, b)) = Sign(compareProjects(a, b))
            /\ \A p \in Range(returned) : Passes(p)
            /\ returned = sortProjects(SelectSeq(projectsCache.items, Passes))

\* a search and a status filter kept both records and put the flagship one, which
\* the cache lists second, first
C28_Witness ==
    /\ lastCall.name = "getFilteredProjects"
    /\ lastCall.filters.status = "complete"
    /\ lastCall.filters.search = "React"
    /\ Len(returned) = 2
    /\ returned[1].tier = "flagship"
    /\ returned[2].tier = "mvp"
    /\ Len(projectsCache.items) = 2
    /\ projectsCache.items[1].tier = "mvp"

(***************************************************************************)
(* C29.  cachedApiCall and the value it stored.                            *)
(***************************************************************************)
\* C29: after a cachedApiCall that succeeded, a later cachedApiCall with the same
\* key made before the ttl has elapsed returns the stored value and does not
\* invoke apiCall
C29_SecondCallServedFromCache ==
    \A i, j \in 1..Len(apiCalls) :
        /\ (i < j /\ apiCalls[i].key = apiCalls[j].key
              /\ apiCalls[i].invoked /\ ~apiCalls[i].threw
              /\ \A k \in (i + 1)..(j - 1) : apiCalls[k].key # apiCalls[i].key
              /\ apiCalls[j].at - apiCalls[i].at <= apiCalls[i].ttl)
             => (~apiCalls[j].invoked /\ apiCalls[j].value = apiCalls[i].value)

(***************************************************************************)
(* C30.  MemoryCache keeps to its maxSize, evicts the earliest entry and   *)
(* drops an expired one.                                                   *)
(***************************************************************************)
CacheWithinMaxSize == Len(cacheEntries) <= cacheOptions.maxSize

\* the step is the call of op on the cache
CacheCalls(op) ==
    /\ cacheResult'.op = op
    /\ dateNow' = dateNow
    /\ <<cacheEntries, cacheResult>>' # <<cacheEntries, cacheResult>>

\* a set on a full cache removes the entry inserted earliest and nothing else,
\* then stores the new entry
SetEvictsEarliest ==
    (CacheCalls("set") /\ Len(cacheEntries) >= cacheOptions.maxSize) =>
        LET key  == cacheResult'.key
            rest == Tail(cacheEntries)
        IN  /\ Len(cacheEntries') <= cacheOptions.maxSize
            /\ cacheEntries[1].key # key =>
                  \A i \in 1..Len(cacheEntries') : cacheEntries'[i].key # cacheEntries[1].key
            /\ \A i \in 1..Len(rest) :
                  rest[i].key # key => \E k \in 1..Len(cacheEntries') : cacheEntries'[k] = rest[i]
            /\ \E k \in 1..Len(cacheEntries') :
                  cacheEntries'[k].key = key /\ cacheEntries'[k].timestamp = dateNow

\* a get without staleWhileRevalidate of an entry older than its ttl returns null
\* and removes the entry
GetDropsExpired ==
    (CacheCalls("get") /\ ~cacheOptions.staleWhileRevalidate) =>
        LET key == cacheResult'.key
            i   == MapIndex(cacheEntries, key)
        IN  (i # 0 /\ dateNow - cacheEntries[i].timestamp > cacheEntries[i].ttl) =>
                /\ cacheResult'.value = JsNull
                /\ MapIndex(cacheEntries', key) = 0

\* C30: after any sequence of set, get, has, delete and clear the cache holds at
\* most maxSize entries; a set on a full cache evicts exactly the entry inserted
\* earliest before storing; a get without staleWhileRevalidate never returns an
\* entry older than its ttl and removes it
C30_CacheBoundedAndEvictsEarliest ==
    []CacheWithinMaxSize /\ [][SetEvictsEarliest /\ GetDropsExpired]_vars

====
